---- MODULE Spec2Model ----
(***************************************************************************)
(* A model of the kernel's cross-core coherence protocol                   *)
(* (kernel/src/arch/x86_64/tlb.rs) and of the system-call dispatcher       *)
(* (kernel/src/arch/x86_64/syscall.rs).                                    *)
(***************************************************************************)
EXTENDS Integers, Sequences, FiniteSets, TLC

(***************************************************************************)
(* Bounds of the model.                                                    *)
(***************************************************************************)
\* Hardware threads of the machine (topology::MACHINE_TOPOLOGY.num_threads()).
NumCores == 3
\* Logs of the multi-log replica are numbered 1..MaxLogId.
MaxLogId == 2
\* How many Unmap system calls, advance_replica calls and
\* eager_advance_mlnr_replica polls a behaviour may start.
MaxUnmaps == 2
MaxAdvances == 2
MaxEager == 1

(***************************************************************************)
(* Program constants.                                                      *)
(***************************************************************************)
\* ArrayQueue::new(4)
QueueCapacity == 4
\* if it.count() > 20 { flush_all }
FlushAllThreshold == 20
\* cluster_destination: SmallVec<[u32; 16]>
NumClusters == 16
BASE_PAGE_SIZE == 4096
LARGE_PAGE_SIZE == 2097152

Cores == 0 .. (NumCores - 1)
LogIds == 1 .. MaxLogId

RECURSIVE Pow2(_)
Pow2(n) == IF n = 0 THEN 1 ELSE 2 * Pow2(n - 1)

\* Interrupt vectors of the two notifications (super::irq::TLB_WORK_PENDING,
\* super::irq::MLNR_GC_INIT); only their being different matters.
TLB_WORK_PENDING == "TLB_WORK_PENDING"
MLNR_GC_INIT == "MLNR_GC_INIT"

(***************************************************************************)
(* Topology: the x2APIC id of each hardware thread, and the two fields of  *)
(* the logical x2APIC id derived from it:                                  *)
(*   Logical x2APIC ID = (x2APIC ID[19:4] << 16) | (1 << x2APIC ID[3:0])   *)
(* Threads 0, 1 sit in cluster 0 at addresses 0 and 5, thread 2 in cluster *)
(* 1 at address 0, thread 3 in cluster 1 at address 5, ...                 *)
(***************************************************************************)
apic_id(gtid) == (gtid \div 2) * 16 + (gtid % 2) * 5
x2apic_logical_cluster_id(apic) == (apic \div 16) % Pow2(16)
x2apic_logical_cluster_address(apic) == apic % 16

\* BitField::set_bit(bit, true) and BitField::get_bits(0..=hi) on a u32.
set_bit(word, bit) ==
    IF (word \div Pow2(bit)) % 2 = 1 THEN word ELSE word + Pow2(bit)
get_bit(word, bit) == (word \div Pow2(bit)) % 2 = 1
get_bits_from_0(word, hi) == word % Pow2(hi + 1)

\* The smallvec! of shootdown(): element k is k << 16.
InitialClusterDestination == [k \in 0 .. (NumClusters - 1) |-> k * Pow2(16)]

(***************************************************************************)
(* The leaf mappings of the process' address space that the coherence      *)
(* model unmaps: one base page and one large page.                         *)
(***************************************************************************)
Leaves ==
    { [vaddr |-> BASE_PAGE_SIZE, size |-> BASE_PAGE_SIZE],
      [vaddr |-> LARGE_PAGE_SIZE, size |-> LARGE_PAGE_SIZE] }

VARIABLES
    \* ---- state of the coherence protocol ----
    pc,          \* what each hardware thread is executing
    queue,       \* IPI_WORKQUEUE: one bounded queue of WorkItems per gtid
    irr,         \* per core: the interrupt vectors pending in its local APIC
    acked,       \* the Shootdown objects whose ack flag is true
    tlbc,        \* per core: the leaf translations cached in its TLB
    mapped,      \* the leaves present in the process' page table
    active,      \* the cores the process has an executor on (core_map)
    loc,         \* per core: locals of the kernel function it is inside
    nextTag,     \* allocation counter of work items
    budget,      \* how many operations of each kind may still start
    \* ---- history of the protocol (what was observed so far) ----
    returned,    \* the shootdown calls that returned
    enq_order,   \* per core: the items enqueued by producers, in order
    proc_order,  \* per core: the items processed, in order
    requeued,    \* the cores on which eager_advance re-inserted a Shootdown
    lastIrq,     \* the most recent run of the IPI handler
    lastAdvance, \* the synchronize_log calls of the most recent advance_log
    \* ---- state of the system-call dispatcher (one process, one core) ----
    vspace,      \* the leaves of the process' page table: vaddr, paddr, size
    tcache,      \* the frame cache of the core: two stacks of addresses
    next_frame,  \* the next frames the node's allocator hands to a refill
    save_area,   \* the executor's save area: ret1, ret2, error code
    debug_build, \* whether the kernel is built with overflow checks
    calls_left,  \* how many system calls the process still makes, by kind
    lastCall,    \* the most recent system call: arguments, pointers, result
    trip,        \* what a Map / Identify / Unmap / Identify sequence returned
    \* ---- state of the model-equivalence test of the address space ----
    totest,      \* the page-table manager under test: its leaves
    model,       \* the reference implementation: its mappings
    lastAction,  \* the most recent test action and the two results
    nactions,    \* how many test actions were applied
    \* ---- state of the buddy allocator of one NUMA node ----
    region,      \* BuddyFrameAllocator.region: base, size, affinity
    heap,        \* the frame of memory the allocator was given
    allocated_bytes,        \* bytes currently allocated
    internal_fragmentation, \* bytes allocated beyond what was asked for
    free_lists,  \* per order: the free blocks, head of the list first
    min_heap_align,         \* the alignment of the region base
    min_block_size,         \* the size of a block of order 0
    live,        \* the frames handed out and not yet given back, with layout
    phase,       \* where the caller is: allocating, giving all back, again
    script,      \* the allocate_frame calls of the first run and their results
    second,      \* the allocate_frame calls after everything was given back
    lastQuery,   \* the most recent allocation_size / layout_to_order call
    lastBuddyCall,          \* the most recent allocate_frame or deallocate_frame
    exact,       \* whether every frame was given back with its own layout
    \* ---- state of the frame cache of one hardware thread (TCacheSp) ----
    cache,       \* the cache: node, base_page_addresses, large_page_addresses
    cache_phase, \* not yet constructed, in use, or stopped by a panic
    plan,        \* what the caller does: release then allocate, or any call
    released,    \* per class: the frames released into the cache, in order
    taken,       \* per class: what the allocate calls returned, in order
    lastCacheCall,          \* the most recent call on the cache
    cache_calls  \* how many calls were made on the cache

tlbVars == <<pc, queue, irr, acked, tlbc, mapped, active, loc, nextTag, budget>>
histVars == <<returned, enq_order, proc_order, requeued, lastIrq, lastAdvance>>
sysVars == <<vspace, tcache, next_frame, save_area, debug_build, calls_left, lastCall, trip>>
testVars == <<totest, model, lastAction, nactions>>
buddyVars ==
    <<region, heap, allocated_bytes, internal_fragmentation, free_lists,
      min_heap_align, min_block_size, live, phase, script, second, lastQuery,
      lastBuddyCall, exact>>
cacheVars == <<cache, cache_phase, plan, released, taken, lastCacheCall, cache_calls>>
vars == <<tlbVars, histVars, sysVars, testVars, buddyVars, cacheVars>>

(***************************************************************************)
(* Work items.  A Shootdown item is a clone of the Arc<Shootdown> whose    *)
(* identity is tag; an AdvanceReplica item carries the log id (its tag     *)
(* only tells two equal messages apart in the history).                    *)
(***************************************************************************)
ShootdownItem(tag, start, end) ==
    [kind |-> "Shootdown", tag |-> tag, start |-> start, end |-> end, log_id |-> 0]
AdvanceReplicaItem(tag, log_id) ==
    [kind |-> "AdvanceReplica", tag |-> tag, start |-> 0, end |-> 0, log_id |-> log_id]
NoItem == [kind |-> "None", tag |-> 0, start |-> 0, end |-> 0, log_id |-> 0]

NoHandle == [vaddr |-> 0, size |-> 0, core_map |-> {}]
NoLocals ==
    [handle |-> NoHandle, gtid |-> 0,
     cluster_destination |-> InitialClusterDestination,
     shootdowns |-> <<>>, sent |-> {}, ipis |-> <<>>, msg |-> NoItem, target |-> 0]

NoIrq == [gtid |-> 0, ran |-> FALSE, entry |-> <<>>, processed |-> <<>>]
NoAdvance == [path |-> "none", gtid |-> 0, log_id |-> 0, syncs |-> <<>>, nr |-> <<>>]

\* The workloads a behaviour runs: a mixed one, one of advance_replica calls
\* with a poll, one of Unmap system calls only, and one of as many
\* advance_replica(0, 1) calls by core 1 as overfill the queue of core 0.
Workloads ==
    { [unmap |-> MaxUnmaps - 1, advance |-> MaxAdvances - 1, eager |-> MaxEager, burst |-> 0],
      [unmap |-> 0, advance |-> MaxAdvances, eager |-> MaxEager, burst |-> 0],
      [unmap |-> MaxUnmaps, advance |-> 0, eager |-> 0, burst |-> 0],
      [unmap |-> 0, advance |-> 0, eager |-> MaxEager, burst |-> QueueCapacity + 1],
      [unmap |-> 1, advance |-> 0, eager |-> MaxEager, burst |-> QueueCapacity] }

\* The cores the process may run on: all of them, or all but core 1.
Processes == { Cores, Cores \ {1} }

(***************************************************************************)
(* The system-call dispatcher (arch/x86_64/syscall.rs).  Addresses are     *)
(* machine words of AddrBits bits; the upper part of the address space,    *)
(* from KERNEL_BASE on, belongs to the kernel.                             *)
(***************************************************************************)
AddrBits == 24
WordModulus == Pow2(AddrBits)
KERNEL_BASE == WordModulus - LARGE_PAGE_SIZE
\* the number of bytes serde_cbor produces for the hardware-thread list and
\* for the ProcessInfo record
SerializedLen == 32
\* the VSpace system calls one behaviour makes, and the other system calls
MaxCalls == 4
MaxPointerCalls == 2
\* the largest number of base pages a Map asks for
MaxMapPages == 2

\* the wrapping u64 addition of a release build
WrappingAdd(a, b) == (a + b) % WordModulus

\* the frames the node's allocator hands out first
FirstBaseFrame == 8 * BASE_PAGE_SIZE
FirstLargeFrame == 2 * LARGE_PAGE_SIZE
\* what the ELF loader mapped before the process ran: its image
ProcessImage ==
    [vaddr |-> LARGE_PAGE_SIZE, paddr |-> LARGE_PAGE_SIZE, size |-> LARGE_PAGE_SIZE]

\* the results a handler hands to syscall_handle
SysOk(a, b) == [status |-> "Ok", ret1 |-> a, ret2 |-> b, err |-> "Ok"]
SysErr(e) == [status |-> "Err", ret1 |-> 0, ret2 |-> 0, err |-> e]
SysPanic(why) == [status |-> "Panic", ret1 |-> 0, ret2 |-> 0, err |-> why]

NoCall ==
    [function |-> "None", op |-> "None", arg2 |-> 0, arg3 |-> 0, arg4 |-> 0,
     pointers |-> {}, checked |-> {}, validated |-> {}, accessed |-> {},
     forwarded |-> {}, checks |-> {}, result |-> SysOk(0, 0),
     handler |-> SysOk(0, 0), before |-> [ret1 |-> 0, ret2 |-> 0, err |-> "Ok"],
     resumed |-> FALSE, steps |-> <<>>,
     frames |-> [popped |-> <<>>, registered |-> <<>>, tcache |-> <<>>]]
NoTrip ==
    [stage |-> "start", base |-> 0, size |-> 0,
     map |-> SysOk(0, 0), identify |-> SysOk(0, 0),
     unmap |-> SysOk(0, 0), after |-> SysOk(0, 0)]
EmptySaveArea == [ret1 |-> 0, ret2 |-> 0, err |-> "Ok"]

\* the buddy allocator before it is given memory (BuddyFrameAllocator::new)
NumFreeLists == 27
NoQuery == [size |-> 0, align |-> 0, alloc_size |-> -1, order |-> -1]
NoFrame == [base |-> 0, size |-> 0, affinity |-> 0]
NoBuddyCall == [op |-> "None", size |-> 0, align |-> 0, status |-> "None", frame |-> NoFrame,
                allocated_before |-> 0, fragmentation_before |-> 0, top_before |-> -1]
NoCacheCall ==
    [op |-> "None", frames |-> <<>>, status |-> "None", frame |-> NoFrame, lost |-> 0,
     before |-> [node |-> 0, base_page_addresses |-> <<>>, large_page_addresses |-> <<>>],
     buffer |-> <<>>]
CacheIdle ==
    /\ cache = [node |-> 0, base_page_addresses |-> <<>>, large_page_addresses |-> <<>>]
    /\ cache_phase = "idle" /\ plan = "none"
    /\ released = [base |-> <<>>, large |-> <<>>]
    /\ taken = [base |-> <<>>, large |-> <<>>]
    /\ lastCacheCall = NoCacheCall /\ cache_calls = 0
BuddyIdle ==
    /\ region = NoFrame
    /\ heap = NoFrame
    /\ allocated_bytes = 0
    /\ internal_fragmentation = 0
    /\ free_lists = [k \in 0..(NumFreeLists - 1) |-> <<>>]
    /\ min_heap_align = BASE_PAGE_SIZE
    /\ min_block_size = BASE_PAGE_SIZE
    /\ live = {}
    /\ phase = "idle"
    /\ script = <<>>
    /\ second = <<>>
    /\ lastQuery = NoQuery
    /\ lastBuddyCall = NoBuddyCall
    /\ exact = TRUE

\* the address-space test before its first action
NoAction ==
    [action |-> "None", vaddr |-> 0,
     rmodel |-> [kind |-> "Ok", err |-> "None", base |-> 0, paddr |-> 0, size |-> 0,
                 rights |-> "None"],
     rtotest |-> [kind |-> "Ok", err |-> "None", base |-> 0, paddr |-> 0, size |-> 0,
                  rights |-> "None"]]
TestIdle ==
    /\ totest = {}
    /\ model = {}
    /\ lastAction = NoAction
    /\ nactions = 0

\* the dispatcher before the first system call
SysIdle ==
    /\ vspace = {ProcessImage}
    /\ tcache = [base_page_addresses |-> <<>>, large_page_addresses |-> <<>>]
    /\ next_frame = [base |-> FirstBaseFrame, large |-> FirstLargeFrame]
    /\ save_area = EmptySaveArea
    /\ lastCall = NoCall
    /\ trip = NoTrip

InitTlb ==
    /\ pc = [c \in Cores |-> "user"]
    /\ queue = [c \in Cores |-> <<>>]
    /\ irr = [c \in Cores |-> {}]
    /\ acked = {}
    /\ active \in Processes
    /\ tlbc = [c \in Cores |-> IF c \in active THEN Leaves ELSE {}]
    /\ mapped = Leaves
    /\ loc = [c \in Cores |-> NoLocals]
    /\ nextTag = 1
    /\ budget \in Workloads
    /\ returned = {}
    /\ enq_order = [c \in Cores |-> <<>>]
    /\ proc_order = [c \in Cores |-> <<>>]
    /\ requeued = {}
    /\ lastIrq = NoIrq
    /\ lastAdvance = NoAdvance
    /\ SysIdle
    /\ debug_build = FALSE
    /\ calls_left = [vspace |-> 0, other |-> 0]
    /\ TestIdle
    /\ BuddyIdle
    /\ CacheIdle

(***************************************************************************)
(* Shootdown::process: what the flush does to the TLB of the core that     *)
(* runs it.  A TLB is the set of leaves whose translation is cached.       *)
(***************************************************************************)
\* vregion.step_by(BASE_PAGE_SIZE).count()
PageCount(start, end) ==
    IF end <= start THEN 0 ELSE ((end - start) + (BASE_PAGE_SIZE - 1)) \div BASE_PAGE_SIZE
\* the addresses vregion.step_by(BASE_PAGE_SIZE) yields
PageAddrs(start, end) ==
    { start + i * BASE_PAGE_SIZE : i \in 0 .. (PageCount(start, end) - 1) }
Covers(leaf, va) == leaf.vaddr <= va /\ va < leaf.vaddr + leaf.size
\* x86::tlb::flush(va): invlpg drops the translation of the page holding va
flush(tlb, va) == { l \in tlb : ~Covers(l, va) }
\* x86::tlb::flush_all(): reloading cr3 drops every non-global translation
flush_all(tlb) == {}

ProcessFlushAlwaysAll(tlb, start, end) == flush_all(tlb)

ProcessFlushSkipsPages(tlb, start, end) ==
    IF PageCount(start, end) > FlushAllThreshold THEN flush_all(tlb) ELSE tlb

ProcessFlush(tlb, start, end) ==
    IF PageCount(start, end) > FlushAllThreshold
    THEN flush_all(tlb)
    ELSE { l \in tlb : \A va \in PageAddrs(start, end) : l \in flush(tlb, va) }

(***************************************************************************)
(* advance_log: the synchronize_log calls it makes, in order.              *)
(***************************************************************************)
AdvanceLogGivenLogFirst(log_id) ==
    IF log_id # 1 THEN <<log_id, 1>> ELSE <<log_id>>

advance_log(log_id) ==
    (IF log_id # 1 THEN <<1>> ELSE <<>>) \o <<log_id>>

\* replica.1.id(): the log the multi-log replica of a core is registered with
ReplicaLogId(gtid) == (gtid % MaxLogId) + 1

(***************************************************************************)
(* The queue operations.                                                   *)
(***************************************************************************)
\* ArrayQueue::push succeeds when the queue holds fewer than its capacity
PushOk(q) == Len(q) < QueueCapacity
\* ArrayQueue::pop takes the oldest element
PopTakesNewest(q) == [item |-> q[Len(q)], rest |-> SubSeq(q, 1, Len(q) - 1)]

Pop(q) == [item |-> Head(q), rest |-> Tail(q)]

\* Shootdown::is_acknowledged
is_acknowledged(tag) == tag \in acked

\* Shootdown::acknowledge: ack.store(true)
acknowledge_later(set, tag) == set
acknowledge(set, tag) == set \cup {tag}

DrainFilterDropsAll(shootdowns) == <<>>

\* shootdowns.drain_filter(|s| s.is_acknowledged()): the entries that stay
DrainFilter(shootdowns) ==
    SelectSeq(shootdowns, LAMBDA tag : ~is_acknowledged(tag))

(***************************************************************************)
(* User code on a core touches a mapped leaf: the MMU walks the page table *)
(* and caches the translation.                                             *)
(***************************************************************************)
UserAccess(c, l) ==
    /\ pc[c] = "user"
    /\ c \in active
    /\ l \in mapped
    /\ l \notin tlbc[c]
    /\ tlbc' = [tlbc EXCEPT ![c] = @ \cup {l}]
    /\ UNCHANGED <<pc, queue, irr, acked, mapped, active, loc, nextTag, budget>>
    /\ UNCHANGED histVars
    /\ UNCHANGED <<sysVars, testVars, buddyVars, cacheVars>>

(***************************************************************************)
(* handle_vspace, VSpaceOperation::Unmap: the replicated unmap removes the *)
(* leaf and hands back the TlbFlushHandle; shootdown(handle) starts.       *)
(***************************************************************************)
\* nr::KernelNode::unmap: the handle of the leaf that holds base
UnmapHandle(l) == [vaddr |-> l.vaddr, size |-> l.size, core_map |-> active]

SysUnmap(c, l) ==
    /\ pc[c] = "user"
    /\ c \in active
    /\ l \in mapped
    /\ budget.unmap > 0
    /\ budget' = [budget EXCEPT !.unmap = @ - 1]
    /\ mapped' = mapped \ {l}
    /\ loc' = [loc EXCEPT ![c] = [NoLocals EXCEPT !.handle = UnmapHandle(l)]]
    /\ pc' = [pc EXCEPT ![c] = "shootdown_enqueue"]
    /\ UNCHANGED <<queue, irr, acked, tlbc, active, nextTag>>
    /\ UNCHANGED histVars
    /\ UNCHANGED <<sysVars, testVars, buddyVars, cacheVars>>

(***************************************************************************)
(* shootdown(handle), the loop over handle.core_map.                       *)
(***************************************************************************)
\* if include && gtid != my_gtid
IsIncluded(c, g) == g \in loc[c].handle.core_map
IsTarget(c, g) == g \in loc[c].handle.core_map /\ g # c
\* the next gtid at or after the loop position for which the body runs
NextTarget(c) ==
    LET rest == { g \in Cores : g >= loc[c].gtid /\ IsTarget(c, g) }
    IN  IF rest = {} THEN NumCores
        ELSE CHOOSE g \in rest : \A h \in rest : g <= h

ShootdownEnqueue(c) ==
    /\ pc[c] = "shootdown_enqueue"
    /\ NextTarget(c) < NumCores
    /\ LET g == NextTarget(c)
           cluster == x2apic_logical_cluster_id(apic_id(g))
           cluster_addr == x2apic_logical_cluster_address(apic_id(g))
           start == loc[c].handle.vaddr
           s == ShootdownItem(nextTag, start, start + loc[c].handle.size)
       IN  IF PushOk(queue[g])
           THEN /\ queue' = [queue EXCEPT ![g] = Append(@, s)]
                /\ enq_order' = [enq_order EXCEPT ![g] = Append(@, s)]
                /\ nextTag' = nextTag + 1
                /\ loc' = [loc EXCEPT ![c] =
                      [@ EXCEPT !.gtid = g + 1,
                                !.cluster_destination =
                                    [@ EXCEPT ![cluster] = set_bit(@, cluster_addr)],
                                !.shootdowns = Append(@, s.tag),
                                !.sent = @ \cup {<<g, s.tag>>}]]
                /\ pc' = pc
           ELSE \* assert!(IPI_WORKQUEUE[gtid].push(s).is_ok()) fails
                /\ pc' = [pc EXCEPT ![c] = "panic"]
                /\ UNCHANGED <<queue, enq_order, nextTag, loc>>
    /\ UNCHANGED <<irr, acked, tlbc, mapped, active, budget>>
    /\ UNCHANGED <<returned, proc_order, requeued, lastIrq, lastAdvance>>
    /\ UNCHANGED <<sysVars, testVars, buddyVars, cacheVars>>

\* Do we need to send to anyone inside this cluster?
NeedsIpi(cluster_ldr) == get_bits_from_0(cluster_ldr, 3) # 0

\* the cluster_ldr values send_ipi_multicast is called with, in order
RECURSIVE IpisFrom(_, _)
IpisFrom(dest, k) ==
    IF k >= NumClusters THEN <<>>
    ELSE (IF NeedsIpi(dest[k]) THEN <<dest[k]>> ELSE <<>>) \o IpisFrom(dest, k + 1)

\* a logical-destination IPI reaches the cores whose logical x2APIC id is in
\* the addressed cluster and has its bit in the mask
ReceivesAlways(g, ldr) == TRUE
Receives(g, ldr) ==
    /\ x2apic_logical_cluster_id(apic_id(g)) = ldr \div Pow2(16)
    /\ get_bit(ldr, x2apic_logical_cluster_address(apic_id(g)))

\* the loop is over: notify the clusters, flush the own TLB
ShootdownNotify(c) ==
    /\ pc[c] = "shootdown_enqueue"
    /\ NextTarget(c) = NumCores
    /\ LET ipis == IpisFrom(loc[c].cluster_destination, 0)
           start == loc[c].handle.vaddr
       IN  /\ irr' = [g \in Cores |->
                 IF \E i \in 1 .. Len(ipis) : Receives(g, ipis[i])
                 THEN irr[g] \cup {TLB_WORK_PENDING} ELSE irr[g]]
           /\ loc' = [loc EXCEPT ![c] = [@ EXCEPT !.ipis = ipis, !.gtid = NumCores]]
           /\ tlbc' = [tlbc EXCEPT ![c] =
                 ProcessFlush(@, start, start + loc[c].handle.size)]
    /\ pc' = [pc EXCEPT ![c] = "shootdown_wait"]
    /\ UNCHANGED <<queue, acked, mapped, active, nextTag, budget>>
    /\ UNCHANGED histVars
    /\ UNCHANGED <<sysVars, testVars, buddyVars, cacheVars>>

\* while !shootdowns.is_empty() { drain_filter; spin_loop }
ShootdownWait(c) ==
    /\ pc[c] = "shootdown_wait"
    /\ IF loc[c].shootdowns = <<>>
       THEN /\ pc' = [pc EXCEPT ![c] = "user"]
            /\ returned' = returned \cup
                  {[gtid |-> c,
                    targets |-> loc[c].handle.core_map \ {c},
                    sent |-> loc[c].sent,
                    ipis |-> loc[c].ipis,
                    start |-> loc[c].handle.vaddr,
                    end |-> loc[c].handle.vaddr + loc[c].handle.size]}
            /\ loc' = [loc EXCEPT ![c] = NoLocals]
       ELSE /\ loc' = [loc EXCEPT ![c] = [@ EXCEPT !.shootdowns = DrainFilter(@)]]
            /\ UNCHANGED <<pc, returned>>
    /\ UNCHANGED <<queue, irr, acked, tlbc, mapped, active, nextTag, budget>>
    /\ UNCHANGED <<enq_order, proc_order, requeued, lastIrq, lastAdvance>>
    /\ UNCHANGED <<sysVars, testVars, buddyVars, cacheVars>>

(***************************************************************************)
(* dequeue(gtid): the handler of the work-pending IPIs.  A core takes a    *)
(* pending interrupt only while it runs user code (interrupts are masked   *)
(* inside the kernel), and the handler runs to its end uninterrupted.      *)
(***************************************************************************)
Interrupt(c, vector) ==
    /\ pc[c] = "user"
    /\ vector \in irr[c]
    /\ irr' = [irr EXCEPT ![c] = @ \ {vector}]
    /\ IF queue[c] = <<>>
       THEN \* Err(_): the request was handled by eager_advance_mlnr_replica
            /\ lastIrq' = [gtid |-> c, ran |-> TRUE, entry |-> <<>>,
                           processed |-> <<>>]
            /\ UNCHANGED <<pc, queue, acked, loc, proc_order, lastAdvance>>
       ELSE LET msg == Pop(queue[c]).item
                rest == Pop(queue[c]).rest
            IN  /\ queue' = [queue EXCEPT ![c] = rest]
                /\ proc_order' = [proc_order EXCEPT ![c] = Append(@, msg)]
                /\ lastIrq' = [gtid |-> c, ran |-> TRUE, entry |-> queue[c],
                               processed |-> <<msg>>]
                /\ IF msg.kind = "Shootdown"
                   THEN \* s.process(): acknowledge first, the flush follows
                        /\ acked' = acknowledge(acked, msg.tag)
                        /\ loc' = [loc EXCEPT ![c] = [NoLocals EXCEPT !.msg = msg]]
                        /\ pc' = [pc EXCEPT ![c] = "irq_flush"]
                        /\ UNCHANGED lastAdvance
                   ELSE /\ lastAdvance' = [path |-> "dequeue", gtid |-> c,
                                           log_id |-> msg.log_id,
                                           syncs |-> advance_log(msg.log_id),
                                           nr |-> <<>>]
                        /\ UNCHANGED <<pc, acked, loc>>
    /\ UNCHANGED <<tlbc, mapped, active, nextTag, budget>>
    /\ UNCHANGED <<returned, enq_order, requeued>>
    /\ UNCHANGED <<sysVars, testVars, buddyVars, cacheVars>>

\* the rest of Shootdown::process in the handler: the flush, then iret
IrqFlush(c) ==
    /\ pc[c] = "irq_flush"
    /\ tlbc' = [tlbc EXCEPT ![c] = ProcessFlush(@, loc[c].msg.start, loc[c].msg.end)]
    /\ loc' = [loc EXCEPT ![c] = NoLocals]
    /\ pc' = [pc EXCEPT ![c] = "user"]
    /\ UNCHANGED <<queue, irr, acked, mapped, active, nextTag, budget>>
    /\ UNCHANGED histVars
    /\ UNCHANGED <<sysVars, testVars, buddyVars, cacheVars>>

(***************************************************************************)
(* eager_advance_mlnr_replica(): the poll at a system-call boundary.       *)
(***************************************************************************)
EagerAdvance(c) ==
    /\ pc[c] = "user"
    /\ budget.eager > 0
    /\ budget' = [budget EXCEPT !.eager = @ - 1]
    /\ IF queue[c] = <<>>
       THEN \* Err(_): synchronize the NR replica, then the core's own log
            /\ lastAdvance' = [path |-> "eager_empty", gtid |-> c,
                               log_id |-> ReplicaLogId(c),
                               syncs |-> advance_log(ReplicaLogId(c)),
                               nr |-> <<"synchronize">>]
            /\ UNCHANGED <<pc, queue, loc, proc_order>>
       ELSE LET msg == Pop(queue[c]).item
            IN  /\ queue' = [queue EXCEPT ![c] = Pop(queue[c]).rest]
                /\ IF msg.kind = "Shootdown"
                   THEN \* it goes back into the queue with enqueue(core_id, msg)
                        /\ loc' = [loc EXCEPT ![c] = [NoLocals EXCEPT !.msg = msg]]
                        /\ pc' = [pc EXCEPT ![c] = "eager_requeue"]
                        /\ UNCHANGED <<proc_order, lastAdvance>>
                   ELSE /\ lastAdvance' = [path |-> "eager", gtid |-> c,
                                           log_id |-> msg.log_id,
                                           syncs |-> advance_log(msg.log_id),
                                           nr |-> <<>>]
                        /\ proc_order' = [proc_order EXCEPT ![c] = Append(@, msg)]
                        /\ UNCHANGED <<pc, loc>>
    /\ UNCHANGED <<irr, acked, tlbc, mapped, active, nextTag>>
    /\ UNCHANGED <<returned, enq_order, requeued, lastIrq>>
    /\ UNCHANGED <<sysVars, testVars, buddyVars, cacheVars>>

\* enqueue(core_id, msg) of the Shootdown that was popped
EagerRequeue(c) ==
    /\ pc[c] = "eager_requeue"
    /\ IF PushOk(queue[c])
       THEN /\ queue' = [queue EXCEPT ![c] = Append(@, loc[c].msg)]
            /\ requeued' = requeued \cup {c}
            /\ loc' = [loc EXCEPT ![c] = NoLocals]
            /\ pc' = [pc EXCEPT ![c] = "user"]
       ELSE /\ pc' = [pc EXCEPT ![c] = "panic"]
            /\ UNCHANGED <<queue, requeued, loc>>
    /\ UNCHANGED <<irr, acked, tlbc, mapped, active, nextTag, budget>>
    /\ UNCHANGED <<returned, enq_order, proc_order, lastIrq, lastAdvance>>
    /\ UNCHANGED <<sysVars, testVars, buddyVars, cacheVars>>

(***************************************************************************)
(* advance_replica(gtid, log_id): enqueue, then send_ipi_to_apic.          *)
(***************************************************************************)
AdvanceReplicaEnqueue(c, g, log_id) ==
    /\ pc[c] = "user"
    /\ g # c
    /\ \/ /\ budget.advance > 0
          /\ budget' = [budget EXCEPT !.advance = @ - 1]
       \/ /\ budget.burst > 0
          /\ c = 1 /\ g = 0 /\ log_id = 1
          /\ budget' = [budget EXCEPT !.burst = @ - 1]
    /\ IF PushOk(queue[g])
       THEN LET msg == AdvanceReplicaItem(nextTag, log_id)
            IN  /\ queue' = [queue EXCEPT ![g] = Append(@, msg)]
                /\ enq_order' = [enq_order EXCEPT ![g] = Append(@, msg)]
                /\ nextTag' = nextTag + 1
                /\ loc' = [loc EXCEPT ![c] = [NoLocals EXCEPT !.target = g, !.msg = msg]]
                /\ pc' = [pc EXCEPT ![c] = "advance_ipi"]
       ELSE /\ pc' = [pc EXCEPT ![c] = "panic"]
            /\ UNCHANGED <<queue, enq_order, nextTag, loc>>
    /\ UNCHANGED <<irr, acked, tlbc, mapped, active>>
    /\ UNCHANGED <<returned, proc_order, requeued, lastIrq, lastAdvance>>
    /\ UNCHANGED <<sysVars, testVars, buddyVars, cacheVars>>

AdvanceReplicaIpi(c) ==
    /\ pc[c] = "advance_ipi"
    /\ irr' = [irr EXCEPT ![loc[c].target] = @ \cup {MLNR_GC_INIT}]
    /\ loc' = [loc EXCEPT ![c] = NoLocals]
    /\ pc' = [pc EXCEPT ![c] = "user"]
    /\ UNCHANGED <<queue, acked, tlbc, mapped, active, nextTag, budget>>
    /\ UNCHANGED histVars
    /\ UNCHANGED <<sysVars, testVars, buddyVars, cacheVars>>

NextTlb ==
    \/ \E c \in Cores, l \in Leaves : UserAccess(c, l)
    \/ \E c \in Cores, l \in Leaves : SysUnmap(c, l)
    \/ \E c \in Cores : ShootdownEnqueue(c)
    \/ \E c \in Cores : ShootdownNotify(c)
    \/ \E c \in Cores : ShootdownWait(c)
    \/ \E c \in Cores, v \in {TLB_WORK_PENDING, MLNR_GC_INIT} : Interrupt(c, v)
    \/ \E c \in Cores : IrqFlush(c)
    \/ \E c \in Cores : EagerAdvance(c)
    \/ \E c \in Cores : EagerRequeue(c)
    \/ \E c \in Cores, g \in Cores, log_id \in LogIds : AdvanceReplicaEnqueue(c, g, log_id)
    \/ \E c \in Cores : AdvanceReplicaIpi(c)

SpecTlb == InitTlb /\ [][NextTlb]_vars

\* What the hardware and the kernel guarantee to happen: a pending interrupt
\* is delivered to a core that runs user code, and kernel code keeps running.
FairTlb ==
    /\ \A c \in Cores :
          /\ WF_vars(Interrupt(c, TLB_WORK_PENDING))
          /\ WF_vars(Interrupt(c, MLNR_GC_INIT))
          /\ WF_vars(IrqFlush(c))
          /\ WF_vars(ShootdownEnqueue(c))
          /\ WF_vars(ShootdownNotify(c))
          /\ WF_vars(ShootdownWait(c))
          /\ WF_vars(EagerRequeue(c))
          /\ WF_vars(AdvanceReplicaIpi(c))

SpecTlbFair == InitTlb /\ [][NextTlb]_vars /\ FairTlb

(***************************************************************************)
(* Properties of the coherence protocol.                                   *)
(***************************************************************************)
Tags == 1 .. ((NumCores - 1) * MaxUnmaps + MaxAdvances + QueueCapacity + 1)
Items(seq) == { seq[i] : i \in 1 .. Len(seq) }
IsPrefix(p, q) == Len(p) <= Len(q) /\ \A i \in 1 .. Len(p) : p[i] = q[i]
ProcessedOn(c, tag) == \E m \in Items(proc_order[c]) : m.tag = tag
Overlaps(l, start, end) == l.vaddr < end /\ start < l.vaddr + l.size

\* C1: a shootdown call has returned only if every target of its target set
\* has processed, and thereby acknowledged, the Shootdown enqueued for it.
C1_ReturnImpliesAllAcked ==
    \A r \in returned :
        \A t \in r.targets :
            \E p \in r.sent :
                /\ p[1] = t
                /\ is_acknowledged(p[2])
                /\ ProcessedOn(t, p[2])

C1_Witness ==
    \E r \in returned : Cardinality(r.targets) >= 2

\* C2: once the shootdown for an unmapped range has returned, no target and
\* not the initiator runs user code with a cached translation of a leaf of
\* that range that is no longer mapped.
C2_NoStaleTranslation ==
    \A r \in returned :
        \A c \in r.targets \cup {r.gtid} :
            pc[c] = "user" =>
                \A l \in tlbc[c] : ~(l \notin mapped /\ Overlaps(l, r.start, r.end))

C2_Witness ==
    \E r \in returned :
        /\ r.targets # {}
        /\ r.end - r.start = BASE_PAGE_SIZE
        /\ \A c \in r.targets \cup {r.gtid} : pc[c] = "user" /\ tlbc[c] # {}

\* C3: when the IPI handler dequeue(gtid) has returned, every item that was
\* in the queue of gtid when it started has been processed by it.
C3_HandlerDrainsQueue ==
    (lastIrq.ran /\ pc[lastIrq.gtid] # "irq_flush") =>
        \A m \in Items(lastIrq.entry) : m \in Items(lastIrq.processed)

\* C4: every work item that is in a queue is eventually processed.
C4_EnqueuedEventuallyProcessed ==
    \A tag \in Tags :
        (\E c \in Cores : \E m \in Items(queue[c]) : m.tag = tag)
            ~> (\E c \in Cores : ProcessedOn(c, tag))

\* C5: processing AdvanceReplica(log_id), in the IPI handler and in the eager
\* poll, synchronizes log 1 and then log log_id when log_id # 1, and log 1
\* exactly once when log_id = 1.
C5_MetadataLogFirst ==
    lastAdvance.path \in {"dequeue", "eager"} =>
        /\ lastAdvance.log_id # 1 => lastAdvance.syncs = <<1, lastAdvance.log_id>>
        /\ lastAdvance.log_id = 1 => lastAdvance.syncs = <<1>>

C5_Witness ==
    /\ lastAdvance.path = "dequeue"
    /\ lastAdvance.log_id = 2
    /\ lastAdvance.syncs = <<1, 2>>

\* C6: shootdown sends exactly one multicast IPI to every cluster that holds
\* a target, its mask holding the bit of each target of the cluster, and
\* none to a cluster without targets.
C6_OneIpiPerTargetCluster ==
    \A c \in Cores :
        pc[c] = "shootdown_wait" =>
            LET targets == loc[c].handle.core_map \ {c}
                ipis == loc[c].ipis
            IN  \A k \in 0 .. (NumClusters - 1) :
                    LET inK == { t \in targets :
                                    x2apic_logical_cluster_id(apic_id(t)) = k }
                        toK == { i \in 1 .. Len(ipis) : ipis[i] \div Pow2(16) = k }
                    IN  IF inK = {} THEN toK = {}
                        ELSE /\ Cardinality(toK) = 1
                             /\ \A i \in toK : \A t \in inK :
                                   get_bit(ipis[i],
                                           x2apic_logical_cluster_address(apic_id(t)))

\* C7 as stated: the items of a core are processed in the order in which
\* they were enqueued.
C7_ProcessedInEnqueueOrder ==
    \A c \in Cores : IsPrefix(proc_order[c], enq_order[c])

IsAdvanceReplica(m) == m.kind = "AdvanceReplica"

\* C7 as amended: the items of a core are processed in the order in which
\* they were enqueued as long as eager_advance_mlnr_replica has not moved a
\* Shootdown from the head of its queue to the tail, and the AdvanceReplica
\* items of a core are processed in enqueue order in every case.
C7_FifoUpToRequeue ==
    \A c \in Cores :
        /\ c \notin requeued => IsPrefix(proc_order[c], enq_order[c])
        /\ IsPrefix(SelectSeq(proc_order[c], IsAdvanceReplica),
                    SelectSeq(enq_order[c], IsAdvanceReplica))

C7_Witness ==
    \E c \in Cores :
        /\ Len(proc_order[c]) = 2
        /\ \A i \in 1 .. 2 : IsAdvanceReplica(proc_order[c][i])
        /\ proc_order[c][1].log_id # proc_order[c][2].log_id

(***************************************************************************)
(* The process' address space as the dispatcher sees it through the        *)
(* replicated kernel node: the set of leaf mappings.                       *)
(***************************************************************************)
\* the leaves that translate addr
LeafAt(vs, addr) == { l \in vs : l.vaddr <= addr /\ addr < l.vaddr + l.size }
\* nr::KernelNode::resolve: walks the tables
resolve(vs, addr) ==
    IF LeafAt(vs, addr) = {}
    THEN [ok |-> FALSE, paddr |-> 0]
    ELSE LET l == CHOOSE l \in LeafAt(vs, addr) : TRUE
         IN  [ok |-> TRUE, paddr |-> l.paddr + (addr - l.vaddr)]
\* nr::KernelNode::unmap: removes the leaf that contains vaddr
unmap(vs, vaddr) ==
    IF LeafAt(vs, vaddr) = {}
    THEN [ok |-> FALSE, vspace |-> vs, handle |-> NoHandle]
    ELSE LET l == CHOOSE l \in LeafAt(vs, vaddr) : TRUE
         IN  [ok |-> TRUE, vspace |-> vs \ {l},
              handle |-> [vaddr |-> l.vaddr, size |-> l.size, core_map |-> {}]]
\* where map_frames puts the i-th frame of the list
RECURSIVE FrameOffset(_, _)
FrameOffset(frames, i) ==
    IF i <= 1 THEN 0 ELSE FrameOffset(frames, i - 1) + frames[i - 1].size
NewLeaves(base, frames) ==
    { [vaddr |-> base + FrameOffset(frames, i), paddr |-> frames[i].base,
       size |-> frames[i].size] : i \in 1..Len(frames) }
\* nr::KernelNode::map_frames: maps the frames one after the other from base
map_frames(vs, base, frames) ==
    LET new == NewLeaves(base, frames)
        fits(l) == /\ l.vaddr % l.size = 0
                   /\ l.vaddr + l.size <= KERNEL_BASE
                   /\ \A o \in vs : l.vaddr + l.size <= o.vaddr \/ o.vaddr + o.size <= l.vaddr
    IN  IF \A l \in new : fits(l)
        THEN [ok |-> TRUE, vspace |-> vs \cup new]
        ELSE [ok |-> FALSE, vspace |-> vs]

\* memory::size_to_pages: how many base and large pages cover size bytes
size_to_pages(size) ==
    LET bytes_not_in_large == size % LARGE_PAGE_SIZE
        div == bytes_not_in_large \div BASE_PAGE_SIZE
        rem == bytes_not_in_large % BASE_PAGE_SIZE
    IN  [bp |-> IF rem > 0 THEN div + 1 ELSE div,
         lp |-> (size - bytes_not_in_large) \div LARGE_PAGE_SIZE]

(***************************************************************************)
(* The frame cache of the core (memory/tcache_sp.rs) and its refill.       *)
(***************************************************************************)
FreshFrames(first, step, n) == [i \in 1..n |-> first + (i - 1) * step]
Missing(stack, n) == IF Len(stack) < n THEN n - Len(stack) ELSE 0
\* KernelAllocator::try_refill_tcache: grows the stacks to bp and lp frames
try_refill_tcache(tc, nf, bp, lp) ==
    LET nb == Missing(tc.base_page_addresses, bp)
        nl == Missing(tc.large_page_addresses, lp)
    IN  [tcache |->
            [base_page_addresses |->
                tc.base_page_addresses \o FreshFrames(nf.base, BASE_PAGE_SIZE, nb),
             large_page_addresses |->
                tc.large_page_addresses \o FreshFrames(nf.large, LARGE_PAGE_SIZE, nl)],
         next_frame |-> [base |-> nf.base + nb * BASE_PAGE_SIZE,
                         large |-> nf.large + nl * LARGE_PAGE_SIZE]]
\* TCacheSp::allocate_base_page, allocate_large_page: pop n frames, one by one
PopFrames(stack, n, size) ==
    [frames |-> [i \in 1..n |-> [base |-> stack[Len(stack) + 1 - i], size |-> size]],
     rest |-> SubSeq(stack, 1, Len(stack) - n)]

(***************************************************************************)
(* user_virt_addr_valid.  The sum base + size is a u64 addition: a build   *)
(* with overflow checks panics when it overflows, any other build wraps.   *)
(***************************************************************************)
RECURSIVE WalkRange(_, _, _, _)
WalkRange(vs, base, upper_addr, dbg) ==
    IF base > upper_addr THEN "Ok"
    ELSE IF upper_addr - base <= BASE_PAGE_SIZE
         THEN IF ~resolve(vs, base).ok THEN "NotMapped"
              ELSE IF upper_addr = 0
                   THEN IF dbg THEN "Panic"
                        ELSE IF resolve(vs, WordModulus - 1).ok THEN "Ok" ELSE "NotMapped"
                   ELSE IF resolve(vs, upper_addr - 1).ok THEN "Ok" ELSE "NotMapped"
         ELSE IF resolve(vs, base).ok
              THEN WalkRange(vs, base + BASE_PAGE_SIZE, upper_addr, dbg)
              ELSE "NotMapped"
user_virt_addr_valid(vs, base, size, dbg) ==
    IF base + size >= WordModulus /\ dbg THEN "Panic"
    ELSE LET upper_addr == WrappingAdd(base, size)
         IN  IF upper_addr < KERNEL_BASE
             THEN WalkRange(vs, base, upper_addr, dbg)
             ELSE "BadAddress"

\* KError into SystemCallError: what the save area reports for a kernel error
ErrorCode(kerror) ==
    CASE kerror = "NotMapped" -> "BadAddress"
      [] kerror = "AlreadyMapped" -> "BadAddress"
      [] kerror = "ProcessNotSet" -> "InternalError"
      [] OTHER -> kerror

(***************************************************************************)
(* The handlers.  Each yields the result it hands to syscall_handle and    *)
(* what it did with the user pointers among its arguments:                 *)
(*   pointers  - the arguments that are user pointers                      *)
(*   checked   - those it called user_virt_addr_valid on                   *)
(*   validated - those for which that call returned Ok                     *)
(*   accessed  - those the handler read or wrote through                   *)
(*   forwarded - those it handed on to the replicated kernel node          *)
(*   checks    - its user_virt_addr_valid calls: base, size, what came back *)
(***************************************************************************)
Handled(result, pointers, checked, validated, accessed, forwarded) ==
    [result |-> result, pointers |-> pointers, checked |-> checked,
     validated |-> validated, accessed |-> accessed, forwarded |-> forwarded,
     checks |-> {}, steps |-> <<>>,
     frames |-> [popped |-> <<>>, registered |-> <<>>, tcache |-> <<>>]]
\* ... and what each user_virt_addr_valid call it made returned
WithChecks(h, checks) == [h EXCEPT !.checks = checks]
\* ... and what it did with the memory manager, the log and the work queues
WithSteps(h, steps) == [h EXCEPT !.steps = steps]
\* ... and the frames it popped from the TCache, those of them the kernel node
\* registered with the process, and the TCache it found
WithFrames(h, frames) == [h EXCEPT !.frames = frames]
NoPointers(result) == Handled(result, {}, {}, {}, {}, {})

\* the base pages try_refill_tcache keeps ready for new page tables
PageTableReserve == 20

\* GetHardwareThreads and GetProcessInfo: serialize, then copy to the buffer
\* when the buffer is long enough
CopyOut(vaddr_buf, vaddr_buf_len) ==
    Handled(SysOk(SerializedLen, 0), {vaddr_buf}, {}, {},
            IF SerializedLen <= vaddr_buf_len THEN {vaddr_buf} ELSE {}, {})

\* the block that borrows the memory manager of the core: the borrow is taken,
\* the frames are allocated, the borrow is dropped with the block, and what
\* follows the block runs without it
ScopeAroundAll(allocations, after) ==
    <<"mem_manager">> \o allocations \o after \o <<"drop mem_manager">>
MemManagerScope(allocations, after) ==
    <<"mem_manager">> \o allocations \o <<"drop mem_manager">> \o after
Allocations(n) == [i \in 1..n |-> "allocate"]

\* what the handler gets after the allocation: the frame id from the kernel
\* node's allocate_frame_to_process, or ProcessNotSet from kcb.current_pid(),
\* after which the handler returns without reaching the log
FrameIds == { 0, 1 }
RegisterReplies == { SysOk(fid, 0) : fid \in FrameIds } \cup { SysErr("ProcessNotSet") }

\* Process AllocatePhysical: one frame of the size asked for, registered with
\* the process by the kernel node, whose reply is the frame id or an error
AllocatePhysical(tc, nf, page_size, reply) ==
    IF page_size # BASE_PAGE_SIZE /\ page_size # LARGE_PAGE_SIZE
    THEN [result |-> SysErr("InvalidSyscallArgument1"), tcache |-> tc, next_frame |-> nf,
          steps |-> <<>>,
          frames |-> [popped |-> <<>>, registered |-> <<>>, tcache |-> tc]]
    ELSE LET bp == IF page_size = BASE_PAGE_SIZE THEN 1 ELSE 0
             rf == try_refill_tcache(tc, nf, bp, 1 - bp)
             large == PopFrames(rf.tcache.large_page_addresses, 1 - bp, LARGE_PAGE_SIZE)
             small == PopFrames(rf.tcache.base_page_addresses, bp, BASE_PAGE_SIZE)
             frame == (large.frames \o small.frames)[1]
         IN  [result |-> IF reply.status = "Ok" THEN SysOk(reply.ret1, frame.base)
                         ELSE reply,
              tcache |-> [base_page_addresses |-> small.rest,
                          large_page_addresses |-> large.rest],
              next_frame |-> rf.next_frame,
              steps |-> <<"try_refill_tcache">> \o
                        MemManagerScope(Allocations(1),
                            IF reply.status = "Ok"
                            THEN <<"log allocate_frame_to_process">> ELSE <<>>),
              frames |-> [popped |-> <<frame>>,
                          registered |-> IF reply.status = "Ok" THEN <<frame>> ELSE <<>>,
                          tcache |-> tc]]

\* VSpace: what the handler does around the allocation of the frames
VSpaceSteps(op, region_size, result) ==
    CASE op = "Map" ->
            LET pages == size_to_pages(region_size)
            IN  <<"try_refill_tcache">> \o
                MemManagerScope(Allocations(pages.lp + pages.bp), <<"log map_frames">>)
      [] op = "Unmap" ->
            <<"log unmap">> \o (IF result.status = "Ok" THEN <<"enqueue shootdown">> ELSE <<>>)
      [] op = "Identify" -> <<"log resolve">>
      [] OTHER -> <<>>

handle_system(op, arg2, arg3) ==
    CASE op = "GetHardwareThreads" -> CopyOut(arg2, arg3)
      [] op = "Stats" -> NoPointers(SysOk(0, 0))
      [] op = "GetCoreID" -> NoPointers(SysOk(0, 0))
      [] OTHER -> NoPointers(SysErr("InvalidSystemOperation"))

handle_process(op, arg2, arg3) ==
    CASE op = "Log" -> Handled(SysOk(0, 0), {arg2}, {}, {}, {arg2}, {})
      [] op = "GetProcessInfo" -> CopyOut(arg2, arg3)
      [] OTHER -> NoPointers(SysErr("InvalidProcessOperation"))

\* a FileIO operation that validates the pointers in ptrs, each with the given
\* length, and hands them and the pointers in more to the kernel node
ValidateThenForward(vs, dbg, ptrs, len, more, nr_reply) ==
    LET verdict(p) == user_virt_addr_valid(vs, p, len, dbg)
        ok == { p \in ptrs : verdict(p) = "Ok" }
        checks == { [base |-> p, size |-> len, verdict |-> verdict(p)] : p \in ptrs }
    IN  IF \E p \in ptrs : verdict(p) = "Panic"
        THEN WithChecks(Handled(SysPanic("attempt to add with overflow"),
                                ptrs \cup more, ptrs, ok, {}, {}), checks)
        ELSE IF ok = ptrs
             THEN WithChecks(Handled(nr_reply, ptrs \cup more, ptrs, ok, {}, ptrs \cup more),
                             checks)
             ELSE LET bad == CHOOSE p \in ptrs : verdict(p) # "Ok"
                  IN  WithChecks(Handled(SysErr(verdict(bad)), ptrs \cup more, ptrs, ok,
                                         {}, {}), checks)

handle_fileio(vs, dbg, op, arg2, arg3, arg4, nr_reply) ==
    CASE op \in {"Open", "Delete", "MkDir"} ->
            ValidateThenForward(vs, dbg, {arg2}, 0, {}, nr_reply)
      [] op \in {"Read", "Write", "ReadAt", "WriteAt"} ->
            ValidateThenForward(vs, dbg, {arg3}, arg4, {}, nr_reply)
      [] op = "Close" -> NoPointers(nr_reply)
      [] op = "GetInfo" ->
            ValidateThenForward(vs, dbg, {arg2}, 0, {arg3}, nr_reply)
      [] op = "WriteDirect" ->
            Handled(nr_reply, {arg2}, {}, {}, {arg2}, {})
      [] op = "FileRename" ->
            ValidateThenForward(vs, dbg, {arg2, arg3}, 0, {}, nr_reply)
      [] OTHER -> NoPointers(SysPanic("FileOperation not allowed"))

\* handle_vspace: the result and the dispatcher state it leaves behind
VSpaceDone(result, vs, tc, nf, handle) ==
    [result |-> result, vspace |-> vs, tcache |-> tc, next_frame |-> nf,
     handle |-> handle]
handle_vspace(vs, tc, nf, op, base, region_size) ==
    CASE op = "Map" ->
            LET pages == size_to_pages(region_size)
                rf == try_refill_tcache(tc, nf, PageTableReserve + pages.bp, pages.lp)
                large == PopFrames(rf.tcache.large_page_addresses, pages.lp, LARGE_PAGE_SIZE)
                small == PopFrames(rf.tcache.base_page_addresses, pages.bp, BASE_PAGE_SIZE)
                frames == large.frames \o small.frames
                total_len == pages.lp * LARGE_PAGE_SIZE + pages.bp * BASE_PAGE_SIZE
                left == [base_page_addresses |-> small.rest,
                         large_page_addresses |-> large.rest]
                m == map_frames(vs, base, frames)
            IN  IF ~m.ok
                THEN VSpaceDone(SysPanic("Can't map memory"), vs, left, rf.next_frame, NoHandle)
                ELSE IF Len(frames) = 0
                     THEN VSpaceDone(SysPanic("unwrap on None"), m.vspace, left,
                                     rf.next_frame, NoHandle)
                     ELSE VSpaceDone(SysOk(frames[1].base, total_len), m.vspace, left,
                                     rf.next_frame, NoHandle)
      [] op = "Unmap" ->
            LET u == unmap(vs, base)
            IN  IF u.ok
                THEN VSpaceDone(SysOk(u.handle.vaddr, u.handle.size), u.vspace, tc, nf, u.handle)
                ELSE VSpaceDone(SysErr("NotMapped"), vs, tc, nf, NoHandle)
      [] op = "Identify" ->
            LET r == resolve(vs, base)
            IN  IF r.ok
                THEN VSpaceDone(SysOk(r.paddr, 0), vs, tc, nf, NoHandle)
                ELSE VSpaceDone(SysErr("NotMapped"), vs, tc, nf, NoHandle)
      [] OTHER -> VSpaceDone(SysErr("InvalidVSpaceOperation"), vs, tc, nf, NoHandle)

\* kpi VSpace::vspace: what the user-space wrapper makes of the three words,
\* and whether its debug assertion on the returned size holds
VSpaceWrapper(base, bound, result) ==
    [ok |-> result.err = "Ok", vaddr |-> base, paddr |-> result.ret1,
     size_as_asked |-> result.err = "Ok" => bound = result.ret2]

(***************************************************************************)
(* The system calls the process makes: the arguments it may pass.          *)
(***************************************************************************)
\* at the start of the process image, inside it, behind it, in the kernel, at
\* the end of memory
UserPointers ==
    { LARGE_PAGE_SIZE, LARGE_PAGE_SIZE + 2048, 2 * LARGE_PAGE_SIZE, KERNEL_BASE + 16,
      WordModulus - 16 }
BufferLengths == { 0, 2 * SerializedLen }
MapBases == { 2 * LARGE_PAGE_SIZE, 3 * LARGE_PAGE_SIZE }
MapSizes == { n * BASE_PAGE_SIZE : n \in 1..MaxMapPages } \cup { LARGE_PAGE_SIZE }
\* what the kernel node may reply to a file operation
NrReplies == { SysOk(0, 0), SysErr("BadFileDescriptor") }
\* the programs the process may be: memory management only, memory
\* management around one other call, other calls only
CallBudgets ==
    { [vspace |-> MaxCalls, other |-> 0],
      [vspace |-> MaxCalls - 2, other |-> 1],
      [vspace |-> 0, other |-> MaxPointerCalls] }

\* the operations that take a user pointer, those next to them, and an
\* unknown operation code
SystemOperations == { "GetHardwareThreads", "Stats", "GetCoreID", "Unknown" }
ProcessOperations == { "Log", "GetProcessInfo", "Unknown" }
VSpaceOperations == { "Map", "Unmap", "Identify", "Unknown" }
FileOperations ==
    { "Open", "Read", "Write", "ReadAt", "WriteAt", "Close", "GetInfo", "Delete",
      "WriteDirect", "FileRename", "MkDir" }

\* the argument words an operation looks at; the others are left 0
BufferArgs(op) ==
    IF op \in {"GetHardwareThreads", "Log", "GetProcessInfo", "WriteDirect"}
    THEN { <<p, n, 0>> : p \in UserPointers, n \in BufferLengths }
    ELSE { <<0, 0, 0>> }
FileArgs(op) ==
    CASE op \in {"Open", "Delete", "MkDir"} -> { <<p, 0, 0>> : p \in UserPointers }
      [] op \in {"Read", "Write", "ReadAt", "WriteAt"} ->
            { <<0, p, n>> : p \in UserPointers, n \in BufferLengths }
      [] op \in {"GetInfo", "FileRename"} ->
            { <<p, q, 0>> : p \in UserPointers, q \in UserPointers }
      [] OTHER -> BufferArgs(op)
VSpaceArgs(op) ==
    CASE op = "Map" -> { <<b, s, 0>> : b \in MapBases, s \in MapSizes }
      [] op \in {"Unmap", "Identify"} -> { <<b, 0, 0>> : b \in MapBases }
      [] OTHER -> { <<0, 0, 0>> }

\* syscall_handle: stores the outcome in the save area and resumes the
\* process; a panic never returns
SavedWhole(sa, result) ==
    [ret1 |-> result.ret1, ret2 |-> result.ret2, err |-> ErrorCode(result.err)]
Saved(sa, result) ==
    CASE result.status = "Ok" ->
            [ret1 |-> result.ret1, ret2 |-> result.ret2, err |-> "Ok"]
      [] result.status = "Err" -> [sa EXCEPT !.err = ErrorCode(result.err)]
      [] OTHER -> sa
Reported(sa, result) ==
    [status |-> result.status, ret1 |-> sa.ret1, ret2 |-> sa.ret2,
     err |-> IF result.status = "Panic" THEN result.err ELSE sa.err]
Called(function, op, args, h, sa) ==
    [function |-> function, op |-> op, arg2 |-> args[1], arg3 |-> args[2],
     arg4 |-> args[3], pointers |-> h.pointers, checked |-> h.checked,
     validated |-> h.validated, accessed |-> h.accessed,
     forwarded |-> h.forwarded, checks |-> h.checks,
     result |-> Reported(sa, h.result),
     handler |-> h.result, before |-> save_area,
     resumed |-> h.result.status # "Panic", steps |-> h.steps, frames |-> h.frames]
CanCall(kind) == calls_left[kind] > 0 /\ lastCall.result.status # "Panic"

\* the record of a Map, Identify, Unmap, Identify sequence on one base
TripStep(t, op, base, size, result) ==
    CASE t.stage = "start" /\ op = "Map" ->
            [t EXCEPT !.stage = "mapped", !.base = base, !.size = size, !.map = result]
      [] t.stage = "mapped" /\ op = "Identify" /\ base = t.base ->
            [t EXCEPT !.stage = "identified", !.identify = result]
      [] t.stage = "identified" /\ op = "Unmap" /\ base = t.base ->
            [t EXCEPT !.stage = "unmapped", !.unmap = result]
      [] t.stage = "unmapped" /\ op = "Identify" /\ base = t.base ->
            [t EXCEPT !.stage = "done", !.after = result]
      [] OTHER -> [NoTrip EXCEPT !.stage = "off"]

SyscallSystem(op, args) ==
    /\ CanCall("other")
    /\ LET h == handle_system(op, args[1], args[2])
           sa == Saved(save_area, h.result)
       IN  /\ save_area' = sa
           /\ lastCall' = Called("System", op, args, h, sa)
    /\ calls_left' = [calls_left EXCEPT !.other = @ - 1]
    /\ UNCHANGED <<vspace, tcache, next_frame, debug_build, trip>>
    /\ UNCHANGED <<tlbVars, histVars, testVars, buddyVars, cacheVars>>

SyscallProcess(op, args) ==
    /\ CanCall("other")
    /\ LET h == handle_process(op, args[1], args[2])
           sa == Saved(save_area, h.result)
       IN  /\ save_area' = sa
           /\ lastCall' = Called("Process", op, args, h, sa)
    /\ calls_left' = [calls_left EXCEPT !.other = @ - 1]
    /\ UNCHANGED <<vspace, tcache, next_frame, debug_build, trip>>
    /\ UNCHANGED <<tlbVars, histVars, testVars, buddyVars, cacheVars>>

\* the process runs on the calling core alone: the shootdown after an Unmap
\* finds no other core and flushes the local TLB
SyscallVSpace(c, op, args) ==
    /\ CanCall("vspace")
    /\ LET d == handle_vspace(vspace, tcache, next_frame, op, args[1], args[2])
           sa == Saved(save_area, d.result)
       IN  /\ vspace' = d.vspace
           /\ tcache' = d.tcache
           /\ next_frame' = d.next_frame
           /\ tlbc' = [tlbc EXCEPT ![c] =
                         ProcessFlush(@, d.handle.vaddr, d.handle.vaddr + d.handle.size)]
           /\ save_area' = sa
           /\ lastCall' = Called("VSpace", op, args,
                                 WithSteps(NoPointers(d.result),
                                           VSpaceSteps(op, args[2], d.result)), sa)
           /\ trip' = TripStep(trip, op, args[1], args[2], Reported(sa, d.result))
    /\ calls_left' = [calls_left EXCEPT !.vspace = @ - 1]
    /\ UNCHANGED debug_build
    /\ UNCHANGED <<pc, queue, irr, acked, mapped, active, loc, nextTag, budget>>
    /\ UNCHANGED <<histVars, testVars, buddyVars, cacheVars>>

SyscallFileIO(op, args, nr_reply) ==
    /\ CanCall("other")
    /\ LET h == handle_fileio(vspace, debug_build, op, args[1], args[2], args[3], nr_reply)
           sa == Saved(save_area, h.result)
       IN  /\ save_area' = sa
           /\ lastCall' = Called("FileIO", op, args, h, sa)
    /\ calls_left' = [calls_left EXCEPT !.other = @ - 1]
    /\ UNCHANGED <<vspace, tcache, next_frame, debug_build, trip>>
    /\ UNCHANGED <<tlbVars, histVars, testVars, buddyVars, cacheVars>>

\* the frame ids the kernel node may reply with
PageSizes == { BASE_PAGE_SIZE, LARGE_PAGE_SIZE, 0 }

SyscallAllocatePhysical(page_size, reply) ==
    /\ CanCall("other")
    /\ LET d == AllocatePhysical(tcache, next_frame, page_size, reply)
           sa == Saved(save_area, d.result)
       IN  /\ tcache' = d.tcache
           /\ next_frame' = d.next_frame
           /\ save_area' = sa
           /\ lastCall' = Called("Process", "AllocatePhysical", <<page_size, 0, 0>>,
                                 WithFrames(WithSteps(NoPointers(d.result), d.steps),
                                            d.frames), sa)
    /\ calls_left' = [calls_left EXCEPT !.other = @ - 1]
    /\ UNCHANGED <<vspace, debug_build, trip>>
    /\ UNCHANGED <<tlbVars, histVars, testVars, buddyVars, cacheVars>>

\* a function number that names no category
SyscallUnknown ==
    /\ CanCall("other")
    /\ LET h == NoPointers(SysErr("InvalidSyscallArgument1"))
           sa == Saved(save_area, h.result)
       IN  /\ save_area' = sa
           /\ lastCall' = Called("Unknown", "None", <<0, 0, 0>>, h, sa)
    /\ calls_left' = [calls_left EXCEPT !.other = @ - 1]
    /\ UNCHANGED <<vspace, tcache, next_frame, debug_build, trip>>
    /\ UNCHANGED <<tlbVars, histVars, testVars, buddyVars, cacheVars>>

\* the coherence protocol at rest, with the process on core 0 alone
TlbIdle ==
    /\ pc = [c \in Cores |-> "user"]
    /\ queue = [c \in Cores |-> <<>>]
    /\ irr = [c \in Cores |-> {}]
    /\ acked = {}
    /\ tlbc = [c \in Cores |-> {}]
    /\ mapped = {}
    /\ active = {0}
    /\ loc = [c \in Cores |-> NoLocals]
    /\ nextTag = 1
    /\ budget = [unmap |-> 0, advance |-> 0, eager |-> 0, burst |-> 0]
    /\ returned = {}
    /\ enq_order = [c \in Cores |-> <<>>]
    /\ proc_order = [c \in Cores |-> <<>>]
    /\ requeued = {}
    /\ lastIrq = NoIrq
    /\ lastAdvance = NoAdvance

InitSys ==
    /\ TlbIdle
    /\ SysIdle
    /\ debug_build \in BOOLEAN
    /\ calls_left \in CallBudgets
    /\ TestIdle
    /\ BuddyIdle
    /\ CacheIdle

NextSys ==
    \/ \E op \in SystemOperations : \E args \in BufferArgs(op) : SyscallSystem(op, args)
    \/ \E op \in ProcessOperations : \E args \in BufferArgs(op) : SyscallProcess(op, args)
    \/ \E op \in VSpaceOperations : \E args \in VSpaceArgs(op) : SyscallVSpace(0, op, args)
    \/ \E op \in FileOperations : \E args \in FileArgs(op) : \E nr_reply \in NrReplies :
          SyscallFileIO(op, args, nr_reply)
    \/ \E page_size \in PageSizes : \E reply \in RegisterReplies :
          SyscallAllocatePhysical(page_size, reply)
    \/ SyscallUnknown

SpecSys == InitSys /\ [][NextSys]_vars

(***************************************************************************)
(* The claims about the system-call dispatcher.                            *)
(***************************************************************************)
TripReached(stages) == trip.stage \in stages

\* C9: the round trip through the VSpace system calls.  A Map of N base
\* pages at a free base succeeds, the wrapper reports the base and the
\* physical address that Identify(base) then returns, the Unmap(base) that
\* follows returns the base and the N * 4096 bytes that were mapped (the
\* size the wrapper asserts), and an Identify(base) after that Unmap fails
\* with BadAddress.
C9_MapIdentifyUnmapRoundTrip ==
    /\ TripReached({"mapped", "identified", "unmapped", "done"}) =>
          /\ trip.map.status = "Ok"
          /\ VSpaceWrapper(trip.base, trip.size, trip.map).vaddr = trip.base
    /\ TripReached({"identified", "unmapped", "done"}) =>
          /\ trip.identify.status = "Ok"
          /\ trip.identify.ret1 = VSpaceWrapper(trip.base, trip.size, trip.map).paddr
    /\ TripReached({"unmapped", "done"}) =>
          /\ trip.unmap.status = "Ok"
          /\ trip.unmap.ret1 = trip.base
          /\ trip.unmap.ret2 = trip.size
          /\ VSpaceWrapper(trip.base, trip.size, trip.unmap).size_as_asked
    /\ TripReached({"done"}) =>
          /\ trip.after.status = "Err"
          /\ trip.after.err = "BadAddress"

\* C10: every user pointer among the arguments of a system call is passed to
\* user_virt_addr_valid, and the handler reads or writes through it only if
\* that check returned Ok.
C10_PointersValidatedBeforeUse ==
    \A p \in lastCall.pointers :
        /\ p \in lastCall.checked
        /\ p \in lastCall.accessed => p \in lastCall.validated

\* the base pages that overlap [base, base + size), for size 0 the page that
\* holds base
PagesOverlapping(base, size) ==
    LET last == IF size = 0 THEN base ELSE base + size - 1
    IN  { p * BASE_PAGE_SIZE : p \in (base \div BASE_PAGE_SIZE)..(last \div BASE_PAGE_SIZE) }
ExpectedVerdict(vs, base, size) ==
    IF base + size >= KERNEL_BASE THEN "BadAddress"
    ELSE IF \A page \in PagesOverlapping(base, size) : resolve(vs, page).ok THEN "Ok"
    ELSE "NotMapped"

\* C11: user_virt_addr_valid(pid, base, size) returns Ok exactly when every
\* base page that overlaps [base, base + size) resolves and the range lies
\* below KERNEL_BASE (for size 0: when the page holding base resolves), it
\* returns BadAddress for a range that reaches KERNEL_BASE, and the error of
\* resolve for an unmapped page.
C11_ValidExactlyWhenMappedBelowKernel ==
    \A c \in lastCall.checks : c.verdict = ExpectedVerdict(vspace, c.base, c.size)

(***************************************************************************)
(* The model-equivalence test of the address space (vspace/test.rs): the   *)
(* same actions are applied to the page-table manager (VSpace) and to the  *)
(* reference implementation (ModelAddressSpace) and their results are      *)
(* compared after every action.                                            *)
(***************************************************************************)
\* the actions one test case applies
MaxActions == 3

MapActions ==
    { "ReadUser", "ReadKernel", "ReadWriteUser", "ReadWriteKernel",
      "ReadExecuteUser", "ReadExecuteKernel",
      "ReadWriteExecuteUser", "ReadWriteExecuteKernel" }
\* vaddrs(0x60_0000): page-aligned addresses, at the start of a large page
\* and inside one
TestVAddrs ==
    { 0, BASE_PAGE_SIZE, LARGE_PAGE_SIZE, LARGE_PAGE_SIZE + BASE_PAGE_SIZE }
\* frames(0x60_0000, 0x40_0000): the base is aligned down to a large page,
\* the size is that of a base page or of a large page
TestFrames ==
    { [base |-> b, size |-> s] :
        b \in {0, LARGE_PAGE_SIZE}, s \in {BASE_PAGE_SIZE, LARGE_PAGE_SIZE} }

\* the results of the four operations
TestOk == [kind |-> "Ok", err |-> "None", base |-> 0, paddr |-> 0, size |-> 0,
           rights |-> "None"]
TestErr(e, base) == [TestOk EXCEPT !.kind = "Err", !.err = e, !.base = base]
Resolved(paddr, rights) == [TestOk EXCEPT !.paddr = paddr, !.rights = rights]
FlushHandle(m) == [TestOk EXCEPT !.base = m.vaddr, !.paddr = m.paddr, !.size = m.size]

\* the mappings of a set that overlap [vaddr, vaddr + size)
Overlapping(mappings, vaddr, size) ==
    { m \in mappings : m.vaddr < vaddr + size /\ vaddr < m.vaddr + m.size }
\* the mappings of a set that contain vaddr
Containing(mappings, vaddr) ==
    { m \in mappings : m.vaddr <= vaddr /\ vaddr < m.vaddr + m.size }
Lowest(mappings) == CHOOSE m \in mappings : \A o \in mappings : m.vaddr <= o.vaddr
Larger(a, b) == IF a >= b THEN a ELSE b
\* the alignment both implementations ask of a mapping
Misaligned(vaddr, frame) ==
    IF frame.base % frame.size # 0 THEN "InvalidFrame"
    ELSE IF vaddr % frame.size # 0 THEN "InvalidBase"
    ELSE "None"
NewMapping(vaddr, frame, rights) ==
    [vaddr |-> vaddr, paddr |-> frame.base, size |-> frame.size, rights |-> rights]

\* VSpace: the leaves of the page table
VSpaceMapFrame(leaves, vaddr, frame, rights) ==
    LET hit == Overlapping(leaves, vaddr, frame.size)
    IN  IF Misaligned(vaddr, frame) # "None"
        THEN [state |-> leaves, result |-> TestErr(Misaligned(vaddr, frame), 0)]
        ELSE IF hit # {}
             THEN [state |-> leaves,
                   result |-> TestErr("AlreadyMapped", Larger(vaddr, Lowest(hit).vaddr))]
             ELSE [state |-> leaves \cup {NewMapping(vaddr, frame, rights)},
                   result |-> TestOk]
VSpaceAdjust(leaves, vaddr, rights) ==
    LET hit == Containing(leaves, vaddr)
    IN  IF hit = {}
        THEN [state |-> leaves, result |-> TestErr("NotMapped", 0)]
        ELSE LET l == Lowest(hit)
             IN  [state |-> (leaves \ {l}) \cup {[l EXCEPT !.rights = rights]},
                  result |-> TestOk]
VSpaceResolve(leaves, vaddr) ==
    LET hit == Containing(leaves, vaddr)
    IN  IF hit = {}
        THEN TestErr("NotMapped", 0)
        ELSE LET l == Lowest(hit)
             IN  Resolved(l.paddr + (vaddr - l.vaddr), l.rights)
\* removes the leaf, base or large, that contains vaddr
VSpaceUnmap(leaves, vaddr) ==
    LET hit == Containing(leaves, vaddr)
    IN  IF hit = {}
        THEN [state |-> leaves, result |-> TestErr("NotMapped", 0)]
        ELSE LET l == Lowest(hit)
             IN  [state |-> leaves \ {l}, result |-> FlushHandle(l)]

\* ModelAddressSpace: a flat map keyed by vaddr
ModelMapFrame(map, vaddr, frame, rights) ==
    LET hit == Overlapping(map, vaddr, frame.size)
    IN  IF Misaligned(vaddr, frame) # "None"
        THEN [state |-> map, result |-> TestErr(Misaligned(vaddr, frame), 0)]
        ELSE IF hit # {}
             THEN [state |-> map, result |-> TestErr("AlreadyMapped", Lowest(hit).vaddr)]
             ELSE [state |-> map \cup {NewMapping(vaddr, frame, rights)},
                   result |-> TestOk]
\* updates in place
ModelAdjust(map, vaddr, rights) ==
    LET hit == Containing(map, vaddr)
    IN  IF hit = {}
        THEN [state |-> map, result |-> TestErr("NotMapped", 0)]
        ELSE LET m == Lowest(hit)
             IN  [state |-> (map \ {m}) \cup {[m EXCEPT !.rights = rights]},
                  result |-> TestOk]
\* scans
ModelResolve(map, vaddr) ==
    LET hit == Containing(map, vaddr)
    IN  IF hit = {}
        THEN TestErr("NotMapped", 0)
        ELSE LET m == Lowest(hit)
             IN  Resolved(m.paddr + (vaddr - m.vaddr), m.rights)
\* removes the exact key
ModelUnmap(map, vaddr) ==
    LET hit == { m \in map : m.vaddr = vaddr }
    IN  IF hit = {}
        THEN [state |-> map, result |-> TestErr("NotMapped", 0)]
        ELSE LET m == Lowest(hit)
             IN  [state |-> map \ {m}, result |-> FlushHandle(m)]

\* one action of model_equivalence: applied to both, the results recorded
Compared(action, vaddr, rmodel, rtotest) ==
    [action |-> action, vaddr |-> vaddr, rmodel |-> rmodel, rtotest |-> rtotest]
CanAct == nactions < MaxActions

TestMap(vaddr, frame, rights) ==
    /\ CanAct
    /\ LET rmodel == ModelMapFrame(model, vaddr, frame, rights)
           rtotest == VSpaceMapFrame(totest, vaddr, frame, rights)
       IN  /\ model' = rmodel.state
           /\ totest' = rtotest.state
           /\ lastAction' = Compared("Map", vaddr, rmodel.result, rtotest.result)
    /\ nactions' = nactions + 1
    /\ UNCHANGED <<tlbVars, histVars, sysVars, buddyVars, cacheVars>>

TestAdjust(vaddr, rights) ==
    /\ CanAct
    /\ LET rmodel == ModelAdjust(model, vaddr, rights)
           rtotest == VSpaceAdjust(totest, vaddr, rights)
       IN  /\ model' = rmodel.state
           /\ totest' = rtotest.state
           /\ lastAction' = Compared("Adjust", vaddr, rmodel.result, rtotest.result)
    /\ nactions' = nactions + 1
    /\ UNCHANGED <<tlbVars, histVars, sysVars, buddyVars, cacheVars>>

TestResolve(vaddr) ==
    /\ CanAct
    /\ lastAction' = Compared("Resolve", vaddr, ModelResolve(model, vaddr),
                              VSpaceResolve(totest, vaddr))
    /\ nactions' = nactions + 1
    /\ UNCHANGED <<model, totest>>
    /\ UNCHANGED <<tlbVars, histVars, sysVars, buddyVars, cacheVars>>

TestUnmap(vaddr) ==
    /\ CanAct
    /\ LET rmodel == ModelUnmap(model, vaddr)
           rtotest == VSpaceUnmap(totest, vaddr)
       IN  /\ model' = rmodel.state
           /\ totest' = rtotest.state
           /\ lastAction' = Compared("Unmap", vaddr, rmodel.result, rtotest.result)
    /\ nactions' = nactions + 1
    /\ UNCHANGED <<tlbVars, histVars, sysVars, buddyVars, cacheVars>>

InitTest ==
    /\ TlbIdle
    /\ SysIdle
    /\ debug_build = FALSE
    /\ calls_left = [vspace |-> 0, other |-> 0]
    /\ TestIdle
    /\ BuddyIdle
    /\ CacheIdle

NextTest ==
    \/ \E vaddr \in TestVAddrs, frame \in TestFrames, rights \in MapActions :
          TestMap(vaddr, frame, rights)
    \/ \E vaddr \in TestVAddrs, rights \in MapActions : TestAdjust(vaddr, rights)
    \/ \E vaddr \in TestVAddrs : TestResolve(vaddr)
    \/ \E vaddr \in TestVAddrs : TestUnmap(vaddr)

SpecTest == InitTest /\ [][NextTest]_vars

\* C8: after every action of the test the page-table manager and the
\* reference implementation have returned equal results, except that when
\* both return AlreadyMapped the base they report may differ.
C8_ModelEquivalence ==
    \/ lastAction.rmodel = lastAction.rtotest
    \/ /\ lastAction.rmodel.err = "AlreadyMapped"
       /\ lastAction.rtotest.err = "AlreadyMapped"

(***************************************************************************)
(* The buddy allocator (memory/buddy.rs).  Blocks are named by their       *)
(* physical address; the kernel's direct map adds the same offset to every *)
(* address, so differences of kernel addresses are differences of these.   *)
(* A free list is the sequence of its blocks, head first.                  *)
(***************************************************************************)

\* Option::None of allocation_size and layout_to_order
None == -1

RECURSIVE NextPow2From(_, _)
NextPow2From(p, n) == IF p >= n THEN p ELSE NextPow2From(2 * p, n)
\* usize::next_power_of_two: the smallest power of two >= n (1 for n = 0)
next_power_of_two(n) == NextPow2From(1, n)

RECURSIVE log2(_)
log2(n) == IF n <= 1 THEN 0 ELSE 1 + log2(n \div 2)

max(a, b) == IF a >= b THEN a ELSE b
min(a, b) == IF a <= b THEN a ELSE b

\* the allocator object made of the variables that model its fields
Self ==
    [region |-> region, allocated_bytes |-> allocated_bytes,
     internal_fragmentation |-> internal_fragmentation, free_lists |-> free_lists,
     min_heap_align |-> min_heap_align, min_block_size |-> min_block_size]

new ==
    [region |-> NoFrame, allocated_bytes |-> 0, internal_fragmentation |-> 0,
     free_lists |-> [k \in 0..(NumFreeLists - 1) |-> <<>>],
     min_heap_align |-> BASE_PAGE_SIZE, min_block_size |-> BASE_PAGE_SIZE]

allocation_size_any_align(self, size, align) ==
    LET rounded == next_power_of_two(max(max(size, align), self.min_block_size))
    IN  IF rounded <= self.region.size THEN rounded ELSE None
allocation_size(self, size, align) ==
    IF align > self.min_heap_align THEN None
    ELSE LET rounded == next_power_of_two(max(max(size, align), self.min_block_size))
         IN  IF rounded <= self.region.size THEN rounded ELSE None

layout_to_order(self, size, align) ==
    LET s == allocation_size(self, size, align)
    IN  IF s = None THEN None ELSE log2(s) - log2(self.min_block_size)

order_to_size(self, order) == Pow2(log2(self.min_block_size) + order)

free_list_append(self, order, block) ==
    [self EXCEPT !.free_lists[order] = @ \o <<block>>]
free_list_insert(self, order, block) ==
    [self EXCEPT !.free_lists[order] = <<block>> \o @]

\* the list without its head; the head is self.free_lists[order][1]
free_list_pop(self, order) ==
    [self EXCEPT !.free_lists[order] = Tail(@)]

free_list_holds(self, order, block) ==
    \E i \in 1..Len(self.free_lists[order]) : self.free_lists[order][i] = block

free_list_remove(self, order, block) ==
    LET list == self.free_lists[order]
        at == CHOOSE i \in 1..Len(list) :
                  list[i] = block /\ \A j \in 1..(i - 1) : list[j] # block
    IN  [self EXCEPT !.free_lists[order] = SubSeq(list, 1, at - 1) \o
                                            SubSeq(list, at + 1, Len(list))]

LowerHalf(self, block, order) == block
\* the upper half the loop of split_free_block cuts off at this order
UpperHalf(self, block, order) == block + order_to_size(self, order)

RECURSIVE split_free_block(_, _, _, _)
split_free_block(self, block, order, order_needed) ==
    IF order > order_needed
    THEN split_free_block(free_list_insert(self, order - 1, UpperHalf(self, block, order - 1)),
                          block, order - 1, order_needed)
    ELSE self

\* relative ^ size, size being a power of two: flip that bit of relative
Xor(relative, size) ==
    IF (relative \div size) % 2 = 1 THEN relative - size ELSE relative + size

buddy(self, order, block) ==
    LET relative == block - self.region.base
        size == order_to_size(self, order)
    IN  IF size >= self.region.size THEN None
        ELSE self.region.base + Xor(relative, size)

OrdersAtNeeded(self, order_needed) ==
    { order \in {order_needed} : self.free_lists[order] # <<>> }
\* the orders >= order_needed whose free list holds a block
OrdersWithBlock(self, order_needed) ==
    { order \in order_needed..(NumFreeLists - 1) : self.free_lists[order] # <<>> }

LastOrder(orders) == CHOOSE o \in orders : \A other \in orders : other <= o
\* the first order the loop of allocate_frame finds a block at
FirstOrder(orders) == CHOOSE o \in orders : \A other \in orders : o <= other

\* the result of allocate_frame: the allocator afterwards, the status and the frame
allocate_frame(self, size, align) ==
    LET order_needed == layout_to_order(self, size, align)
    IN  IF order_needed = None
        THEN [self |-> self, status |-> "InvalidLayout", frame |-> NoFrame]
        ELSE IF OrdersWithBlock(self, order_needed) = {}
        THEN [self |-> self, status |-> "CacheExhausted", frame |-> NoFrame]
        ELSE LET order == FirstOrder(OrdersWithBlock(self, order_needed))
                 block == self.free_lists[order][1]
                 popped == free_list_pop(self, order)
                 split == split_free_block(popped, block, order, order_needed)
                 f == [base |-> block, size |-> order_to_size(self, order_needed),
                       affinity |-> self.region.affinity]
             IN  [self |-> [split EXCEPT
                               !.allocated_bytes = @ + f.size,
                               !.internal_fragmentation = @ + (f.size - size)],
                  status |-> "Ok", frame |-> f]

\* the loop of deallocate_frame from this order on; it ends without an
\* insertion when it runs out of orders
RECURSIVE Merge(_, _, _)
Merge(self, block, order) ==
    IF order > NumFreeLists - 1 THEN self
    ELSE LET b == buddy(self, order, block)
         IN  IF b # None /\ free_list_holds(self, order, b)
             THEN Merge(free_list_remove(self, order, b), min(block, b), order + 1)
             ELSE free_list_insert(self, order, block)

deallocate_frame_uncounted(self, frame, size, align) ==
    Merge(self, frame.base, layout_to_order(self, size, align))
deallocate_frame(self, frame, size, align) ==
    LET initial_order == layout_to_order(self, size, align)
        counted == [self EXCEPT
                       !.allocated_bytes = @ - frame.size,
                       !.internal_fragmentation = @ - (frame.size - size)]
    IN  Merge(counted, frame.base, initial_order)

add_memory(self, r) ==
    IF self.region.base = 0
    THEN LET size == next_power_of_two(r.size) \div 2
             sized == [self EXCEPT !.region.size = size]
             order == layout_to_order(sized, size, 1)
             aligned == [sized EXCEPT
                            !.region.affinity = r.affinity,
                            !.min_heap_align = IF r.base % LARGE_PAGE_SIZE = 0
                                               THEN LARGE_PAGE_SIZE ELSE BASE_PAGE_SIZE]
         IN  free_list_insert(aligned, order, r.base)
    ELSE self

new_with_frame(f) == add_memory(new, f)

new_test_instance(r, block_size) ==
    LET result == [region |-> r, allocated_bytes |-> 0, internal_fragmentation |-> 0,
                   free_lists |-> [k \in 0..(NumFreeLists - 1) |-> <<>>],
                   min_heap_align |-> IF r.base % LARGE_PAGE_SIZE = 0
                                      THEN LARGE_PAGE_SIZE ELSE BASE_PAGE_SIZE,
                   min_block_size |-> block_size]
    IN  free_list_insert(result, layout_to_order(result, r.size, 1), r.base)

\* the allocate_frame calls of one run
MaxAllocs == 4

(***************************************************************************)
(* The regions an allocator is built over: the 256-byte heap of the unit   *)
(* tests with 16-byte blocks, a heap of four pages on a 2 MiB boundary,    *)
(* and frames handed to new_with_frame, one that starts on a 2 MiB         *)
(* boundary and one that starts three pages into memory.                   *)
(***************************************************************************)
Regions ==
    { [ctor |-> "new_test_instance", min_block_size |-> 16,
       frame |-> [base |-> 2 * BASE_PAGE_SIZE, size |-> 256, affinity |-> 8]],
      [ctor |-> "new_test_instance", min_block_size |-> BASE_PAGE_SIZE,
       frame |-> [base |-> LARGE_PAGE_SIZE, size |-> 4 * BASE_PAGE_SIZE, affinity |-> 2]],
      [ctor |-> "new_with_frame", min_block_size |-> BASE_PAGE_SIZE,
       frame |-> [base |-> LARGE_PAGE_SIZE, size |-> 4 * BASE_PAGE_SIZE, affinity |-> 1]],
      [ctor |-> "new_with_frame", min_block_size |-> BASE_PAGE_SIZE,
       frame |-> [base |-> 3 * BASE_PAGE_SIZE, size |-> 8 * BASE_PAGE_SIZE, affinity |-> 1]] }

Constructed(r) ==
    IF r.ctor = "new_test_instance" THEN new_test_instance(r.frame, r.min_block_size)
    ELSE new_with_frame(r.frame)

\* the memory the allocator was given to manage: of the frame handed to
\* add_memory the part it kept
Managed(r) ==
    IF r.ctor = "new_test_instance" THEN r.frame
    ELSE [r.frame EXCEPT !.size = next_power_of_two(r.frame.size) \div 2]

\* the layouts of the calls, as <<size, align>>: half a block, two blocks, the
\* whole region, twice the region, and half a block aligned beyond the heap
Layouts ==
    { <<min_block_size \div 2, min_block_size \div 2>>,
      <<2 * min_block_size, min(2 * min_block_size, min_heap_align)>>,
      <<region.size, min(region.size, min_heap_align)>>,
      <<2 * region.size, 1>>,
      <<min_block_size \div 2, 2 * min_heap_align>> }

\* the layouts of the pure queries: those and the two of test_order
Queries == Layouts \cup { <<0, 1>>, <<region.size, 1>> }

Install(self) ==
    /\ region' = self.region
    /\ allocated_bytes' = self.allocated_bytes
    /\ internal_fragmentation' = self.internal_fragmentation
    /\ free_lists' = self.free_lists
    /\ min_heap_align' = self.min_heap_align
    /\ min_block_size' = self.min_block_size

Queried(self, size, align) ==
    [size |-> size, align |-> align, alloc_size |-> allocation_size(self, size, align),
     order |-> layout_to_order(self, size, align)]

\* the highest order whose free list holds a block, -1 when all are empty
TopOrder(self) ==
    LET orders == OrdersWithBlock(self, 0)
    IN  IF orders = {} THEN -1
        ELSE CHOOSE o \in orders : \A other \in orders : other <= o

BuddyCalled(op, self, size, align, status, frame) ==
    [op |-> op, size |-> size, align |-> align, status |-> status, frame |-> frame,
     allocated_before |-> self.allocated_bytes,
     fragmentation_before |-> self.internal_fragmentation,
     top_before |-> TopOrder(self)]

\* what a run keeps of an allocate_frame call
Outcome(size, align, r) ==
    [size |-> size, align |-> align, status |-> r.status, frame |-> r.frame]

\* the frames a run holds, each with the layout it was requested with
Held(size, align, r) ==
    IF r.status = "Ok" THEN { [frame |-> r.frame, size |-> size, align |-> align] } ELSE {}

\* a call of allocation_size and layout_to_order on the fresh allocator
BuddyQuery(size, align) ==
    /\ phase = "first" /\ script = <<>>
    /\ lastQuery # Queried(Self, size, align)
    /\ lastQuery' = Queried(Self, size, align)
    /\ UNCHANGED <<region, heap, allocated_bytes, internal_fragmentation, free_lists,
                   min_heap_align, min_block_size, live, phase, script, second,
                   lastBuddyCall, exact>>
    /\ UNCHANGED <<tlbVars, histVars, sysVars, testVars, cacheVars>>

\* allocate_frame(layout), in the first run or between deallocations
BuddyAllocate(size, align) ==
    /\ phase \in {"first", "mixed"}
    /\ Len(script) < MaxAllocs
    /\ LET r == allocate_frame(Self, size, align)
       IN  /\ Install(r.self)
           /\ live' = live \cup Held(size, align, r)
           /\ script' = Append(script, Outcome(size, align, r))
           /\ lastBuddyCall' = BuddyCalled("Allocate", Self, size, align, r.status, r.frame)
    /\ lastQuery' = Queried(Self, size, align)
    /\ UNCHANGED <<heap, phase, second, exact>>
    /\ UNCHANGED <<tlbVars, histVars, sysVars, testVars, cacheVars>>

\* deallocate_frame(frame, layout) of a held frame, with the layout it was
\* requested with or, as the tests do, with its size and alignment 1
BuddyDeallocate(l, size, align) ==
    /\ phase \in {"first", "mixed"}
    /\ l \in live
    /\ Install(deallocate_frame(Self, l.frame, size, align))
    /\ live' = live \ {l}
    /\ phase' = "mixed"
    /\ exact' = (exact /\ size = l.size)
    /\ lastBuddyCall' = BuddyCalled("Deallocate", Self, size, align, "Ok", l.frame)
    /\ lastQuery' = Queried(Self, size, align)
    /\ UNCHANGED <<heap, script, second>>
    /\ UNCHANGED <<tlbVars, histVars, sysVars, testVars, cacheVars>>

\* the held frame of the earliest allocate_frame call
Earliest ==
    LET at == CHOOSE i \in 1..Len(script) :
                  /\ \E l \in live : l.frame = script[i].frame
                  /\ \A j \in 1..(i - 1) : \A l \in live : l.frame # script[j].frame
    IN  CHOOSE l \in live : l.frame = script[at].frame

\* after a run of allocations only: deallocate_frame of the frames in the
\* order they were allocated in, with their layouts
BuddyDeallocateInOrder ==
    /\ phase \in {"first", "free"}
    /\ live # {}
    /\ LET l == Earliest
       IN  /\ Install(deallocate_frame(Self, l.frame, l.size, l.align))
           /\ live' = live \ {l}
           /\ phase' = IF live = {l} THEN "second" ELSE "free"
           /\ lastBuddyCall' = BuddyCalled("Deallocate", Self, l.size, l.align, "Ok", l.frame)
           /\ lastQuery' = Queried(Self, l.size, l.align)
    /\ UNCHANGED <<heap, script, second, exact>>
    /\ UNCHANGED <<tlbVars, histVars, sysVars, testVars, cacheVars>>

\* the second run: the next allocate_frame call of the first run again
BuddyReplay ==
    /\ phase = "second"
    /\ Len(second) < Len(script)
    /\ LET size == script[Len(second) + 1].size
           align == script[Len(second) + 1].align
           r == allocate_frame(Self, size, align)
       IN  /\ Install(r.self)
           /\ live' = live \cup Held(size, align, r)
           /\ second' = Append(second, Outcome(size, align, r))
           /\ lastBuddyCall' = BuddyCalled("Allocate", Self, size, align, r.status, r.frame)
           /\ lastQuery' = Queried(Self, size, align)
    /\ UNCHANGED <<heap, phase, script, exact>>
    /\ UNCHANGED <<tlbVars, histVars, sysVars, testVars, cacheVars>>

\* one allocate_frame call once every frame of the first run is returned
BuddyAllocateAfter(size, align) ==
    /\ phase = "second"
    /\ second = <<>>
    /\ LET r == allocate_frame(Self, size, align)
       IN  /\ Install(r.self)
           /\ live' = live \cup Held(size, align, r)
           /\ lastBuddyCall' = BuddyCalled("Allocate", Self, size, align, r.status, r.frame)
    /\ phase' = "after"
    /\ lastQuery' = Queried(Self, size, align)
    /\ UNCHANGED <<heap, script, second, exact>>
    /\ UNCHANGED <<tlbVars, histVars, sysVars, testVars, cacheVars>>

InitBuddy ==
    /\ TlbIdle
    /\ SysIdle
    /\ debug_build = FALSE
    /\ calls_left = [vspace |-> 0, other |-> 0]
    /\ TestIdle
    /\ CacheIdle
    /\ \E r \in Regions :
          /\ region = Constructed(r).region
          /\ allocated_bytes = Constructed(r).allocated_bytes
          /\ internal_fragmentation = Constructed(r).internal_fragmentation
          /\ free_lists = Constructed(r).free_lists
          /\ min_heap_align = Constructed(r).min_heap_align
          /\ min_block_size = Constructed(r).min_block_size
          /\ heap = Managed(r)
    /\ live = {} /\ phase = "first" /\ script = <<>> /\ second = <<>>
    /\ lastQuery = NoQuery /\ lastBuddyCall = NoBuddyCall /\ exact = TRUE

NextBuddy ==
    \/ \E q \in Queries : BuddyQuery(q[1], q[2])
    \/ \E layout \in Layouts : BuddyAllocate(layout[1], layout[2])
    \/ \E l \in live : \E layout \in { <<l.size, l.align>>, <<l.frame.size, 1>> } :
          BuddyDeallocate(l, layout[1], layout[2])
    \/ BuddyDeallocateInOrder
    \/ BuddyReplay
    \/ \E layout \in Layouts : BuddyAllocateAfter(layout[1], layout[2])

SpecBuddy == InitBuddy /\ [][NextBuddy]_vars

\* C12: on a fresh allocator, allocate_frame(layout) followed by
\* deallocate_frame of the frame with the same layout leaves allocated() at 0,
\* and the next allocate_frame(layout) returns a frame with the same base.
C12_RoundTrip ==
    (Len(script) = 1 /\ script[1].status = "Ok" /\ phase = "second") =>
        /\ (second = <<>> => allocated_bytes = 0)
        /\ (Len(second) = 1 =>
               /\ second[1].status = "Ok"
               /\ second[1].frame.base = script[1].frame.base)

\* the round trip of a layout smaller than the region, which splits blocks
C12_Witness ==
    /\ Len(script) = 1 /\ script[1].status = "Ok" /\ phase = "second"
    /\ script[1].frame.size < region.size
    /\ Len(second) = 1 /\ second[1].frame = script[1].frame

\* the blocks on the free lists, each with the size of its order
FreeBlocks ==
    UNION { { [base |-> free_lists[k][i], size |-> order_to_size(Self, k)] :
                i \in 1..Len(free_lists[k]) } :
            k \in { o \in 0..(NumFreeLists - 1) : free_lists[o] # <<>> } }

Overlap(a, b) == a.base < b.base + b.size /\ b.base < a.base + a.size

\* C13: after any sequence of allocate_frame and deallocate_frame calls (each
\* frame deallocated at most once, with a layout of its order) no two
\* allocated frames overlap and no allocated frame overlaps a block on a
\* free list.
C13_Disjoint ==
    /\ \A a, b \in live : a # b => ~Overlap(a.frame, b.frame)
    /\ \A a \in live : \A f \in FreeBlocks : ~Overlap(a.frame, f)

\* two frames held and a block free, after deallocations and a further
\* allocation
C13_Witness ==
    /\ phase = "mixed"
    /\ lastBuddyCall.op = "Allocate" /\ lastBuddyCall.status = "Ok"
    /\ Cardinality(live) >= 2
    /\ FreeBlocks # {}

\* C14: starting from a fresh region, a sequence of allocate_frame calls,
\* then deallocate_frame of every returned frame in allocation order, then
\* the same sequence of calls again yields call by call the result of the
\* first run: the same frame, or the failure of the first run.
C14_ReplayDeterministic ==
    \A i \in 1..Len(second) :
        /\ second[i].status = script[i].status
        /\ second[i].frame = script[i].frame

\* the heap of test_alloc_simple, and the layouts its first calls ask for, no
\* frame deallocated in between
SimpleHeap == region.size = 256 /\ min_block_size = 16
Asked(calls, layouts) ==
    /\ phase # "mixed"
    /\ Len(calls) >= Len(layouts)
    /\ \A i \in 1..Len(layouts) : <<calls[i].size, calls[i].align>> = layouts[i]
Offset(call) == call.frame.base - region.base
WholeHeapAfter(n) ==
    /\ Len(script) = n /\ phase = "after"
    /\ lastBuddyCall.size = 256 /\ lastBuddyCall.align = 256

\* C15: on a fresh 256-byte region with min_block_size 16, allocate(8,8)
\* twice yields offsets 0 and 16, then allocate(32,32) yields offset 64; after
\* deallocating all three, allocate(256,256) yields offset 0.
C15_SimpleScenario ==
    (SimpleHeap /\ Asked(script, << <<8, 8>>, <<8, 8>>, <<32, 32>> >>)) =>
        /\ Offset(script[1]) = 0 /\ Offset(script[2]) = 16 /\ Offset(script[3]) = 64
        /\ WholeHeapAfter(3) => lastBuddyCall.status = "Ok" /\ Offset(lastBuddyCall) = 0

\* C15, amended: the third call, allocate(32,32), yields offset 32; it yields
\* offset 64 when a third allocate(8,8), which yields 32, precedes it.  Either
\* way allocate(256,256) yields offset 0 once all frames are deallocated.
C15_SimpleScenarioAsCoded ==
    /\ (SimpleHeap /\ Asked(script, << <<8, 8>>, <<8, 8>>, <<32, 32>> >>)) =>
          /\ Offset(script[1]) = 0 /\ Offset(script[2]) = 16 /\ Offset(script[3]) = 32
          /\ WholeHeapAfter(3) => lastBuddyCall.status = "Ok" /\ Offset(lastBuddyCall) = 0
    /\ (SimpleHeap /\ Asked(script, << <<8, 8>>, <<8, 8>>, <<8, 8>>, <<32, 32>> >>)) =>
          /\ Offset(script[1]) = 0 /\ Offset(script[2]) = 16 /\ Offset(script[3]) = 32
          /\ Offset(script[4]) = 64
          /\ WholeHeapAfter(4) => lastBuddyCall.status = "Ok" /\ Offset(lastBuddyCall) = 0

\* the three calls made, their frames deallocated, the whole heap allocated
C15_Witness ==
    /\ SimpleHeap /\ Asked(script, << <<8, 8>>, <<8, 8>>, <<32, 32>> >>)
    /\ WholeHeapAfter(3)
    /\ lastBuddyCall.status = "Ok"

\* max(size, align) rounded up to the next power of two and raised to at
\* least min_block_size
Rounded(size, align) == max(next_power_of_two(max(size, align)), min_block_size)

\* C16: for every layout (size, align), allocation_size(layout) equals
\* max(size, align) rounded up to the next power of two and raised to at least
\* min_block_size when that value is at most the region size, and is None
\* otherwise.
C16_AllocationSize ==
    lastQuery # NoQuery =>
        lastQuery.alloc_size =
            IF Rounded(lastQuery.size, lastQuery.align) <= region.size
            THEN Rounded(lastQuery.size, lastQuery.align) ELSE None

\* C16, amended: ... when that value is at most the region size and align is
\* at most the alignment of the heap (min_heap_align), and is None otherwise.
C16_AllocationSizeAligned ==
    lastQuery # NoQuery =>
        lastQuery.alloc_size =
            IF /\ lastQuery.align <= min_heap_align
               /\ Rounded(lastQuery.size, lastQuery.align) <= region.size
            THEN Rounded(lastQuery.size, lastQuery.align) ELSE None

\* a layout that fits the region and asks for more than the heap's alignment
C16_Witness ==
    /\ lastQuery # NoQuery
    /\ lastQuery.align > min_heap_align
    /\ Rounded(lastQuery.size, lastQuery.align) <= region.size
    /\ lastQuery.alloc_size = None

\* C17: for a buddy whose region size is a power of two,
\* layout_to_order(size 0, align 1) = 0 and layout_to_order(region_size,
\* align 1) = free_lists.len() - 1.
C17_OrderRange ==
    /\ (lastQuery.size = 0 /\ lastQuery.align = 1) => lastQuery.order = 0
    /\ (lastQuery.size = region.size /\ lastQuery.align = 1) =>
           lastQuery.order = NumFreeLists - 1

\* the order a layout needs, by its rounded size
NeededOrder(size, align) == log2(Rounded(size, align)) - log2(min_block_size)

RECURSIVE SumSizes(_)
SumSizes(frames) ==
    IF frames = {} THEN 0
    ELSE LET l == CHOOSE x \in frames : TRUE
         IN  l.frame.size + SumSizes(frames \ {l})
RECURSIVE SumWaste(_)
SumWaste(frames) ==
    IF frames = {} THEN 0
    ELSE LET l == CHOOSE x \in frames : TRUE
         IN  (l.frame.size - l.size) + SumWaste(frames \ {l})

\* C19: in every reachable state allocated() equals the sum of the sizes of
\* the allocated frames, and internal_fragmentation() the sum over them of
\* frame size minus requested size provided each frame was deallocated with
\* the layout it was allocated with; a failed allocate_frame changes neither
\* counter.
C19_Statistics ==
    /\ allocated_bytes = SumSizes(live)
    /\ exact => internal_fragmentation = SumWaste(live)
    /\ (lastBuddyCall.op = "Allocate" /\ lastBuddyCall.status # "Ok") =>
           /\ allocated_bytes = lastBuddyCall.allocated_before
           /\ internal_fragmentation = lastBuddyCall.fragmentation_before

\* frames held with waste in them after a frame was given back with its layout
C19_Witness ==
    /\ lastBuddyCall.op = "Deallocate"
    /\ lastBuddyCall.frame.size > lastBuddyCall.size
    /\ exact
    /\ live # {}
    /\ internal_fragmentation > 0

\* C20: every frame returned by allocate_frame lies entirely inside the
\* managed region, has a power-of-two size >= max(layout.size, layout.align,
\* min_block_size), has a base whose offset from the region base is a
\* multiple of its size, and carries the affinity of the region.
C20_FrameWellFormed ==
    (lastBuddyCall.op = "Allocate" /\ lastBuddyCall.status = "Ok") =>
        LET f == lastBuddyCall.frame
        IN  /\ heap.base <= f.base /\ f.base + f.size <= heap.base + heap.size
            /\ f.size = next_power_of_two(f.size)
            /\ f.size >= max(max(lastBuddyCall.size, lastBuddyCall.align), min_block_size)
            /\ (f.base - heap.base) % f.size = 0
            /\ f.affinity = heap.affinity

(***************************************************************************)
(* The frame cache of a hardware thread (memory/tcache_sp.rs): two stacks  *)
(* of physical addresses, the top of a stack being the end of its          *)
(* sequence.  A call that panics leaves the status "Panic".                *)
(***************************************************************************)

\* the capacities of the two ArrayVecs
BasePageCapacity == 2048
LargePageCapacity == 12

TCacheSp_new(node) ==
    [node |-> node, base_page_addresses |-> <<>>, large_page_addresses |-> <<>>]

Frame(base, size, affinity) == [base |-> base, size |-> size, affinity |-> affinity]
paddr_to_base_page(self, pa) == Frame(pa, BASE_PAGE_SIZE, self.node)
paddr_to_large_page(self, pa) == Frame(pa, LARGE_PAGE_SIZE, self.node)

\* ArrayVec::try_push: whether there is room, and the vector afterwards
try_push_unbounded(vec, capacity, element) == [ok |-> TRUE, vec |-> Append(vec, element)]
try_push(vec, capacity, element) ==
    IF Len(vec) < capacity THEN [ok |-> TRUE, vec |-> Append(vec, element)]
    ELSE [ok |-> FALSE, vec |-> vec]

\* ArrayVec::pop takes the last element
pop_first(vec) == [element |-> Head(vec), vec |-> Tail(vec)]
pop(vec) == [element |-> vec[Len(vec)], vec |-> SubSeq(vec, 1, Len(vec) - 1)]

\* the result of a call: the cache afterwards, the status, the frame returned
CacheResult(self, status, frame) == [self |-> self, status |-> status, frame |-> frame]

allocate_base_page(self) ==
    IF self.base_page_addresses = <<>> THEN CacheResult(self, "CacheExhausted", NoFrame)
    ELSE LET p == pop(self.base_page_addresses)
         IN  CacheResult([self EXCEPT !.base_page_addresses = p.vec], "Ok",
                         paddr_to_base_page(self, p.element))

allocate_large_page(self) ==
    IF self.large_page_addresses = <<>> THEN CacheResult(self, "CacheExhausted", NoFrame)
    ELSE LET p == pop(self.large_page_addresses)
         IN  CacheResult([self EXCEPT !.large_page_addresses = p.vec], "Ok",
                         paddr_to_large_page(self, p.element))

\* the three assert_eq! of release_* and grow_*
AssertsAny(self, frame, size) == TRUE
AssertsHold(self, frame, size) ==
    /\ frame.size = size
    /\ frame.base % size = 0
    /\ frame.affinity = self.node

release_base_page(self, frame) ==
    IF ~AssertsHold(self, frame, BASE_PAGE_SIZE) THEN CacheResult(self, "Panic", NoFrame)
    ELSE LET pushed == try_push(self.base_page_addresses, BasePageCapacity, frame.base)
         IN  IF pushed.ok
             THEN CacheResult([self EXCEPT !.base_page_addresses = pushed.vec], "Ok", NoFrame)
             ELSE CacheResult(self, "CacheFull", NoFrame)

release_large_page(self, frame) ==
    IF ~AssertsHold(self, frame, LARGE_PAGE_SIZE) THEN CacheResult(self, "Panic", NoFrame)
    ELSE LET pushed == try_push(self.large_page_addresses, LargePageCapacity, frame.base)
         IN  IF pushed.ok
             THEN CacheResult([self EXCEPT !.large_page_addresses = pushed.vec], "Ok", NoFrame)
             ELSE CacheResult(self, "CacheFull", NoFrame)

\* how far the loop of grow_* gets: the index of the first frame that fails an
\* assert or finds the vector full, Len + 1 when there is none
StopsAt(self, free_list, size, room) ==
    LET stops == { i \in 1..Len(free_list) :
                     ~AssertsHold(self, free_list[i], size) \/ i > room }
    IN  IF stops = {} THEN Len(free_list) + 1
        ELSE CHOOSE i \in stops : \A j \in stops : i <= j

Bases(free_list, n) == [i \in 1..n |-> free_list[i].base]

GrowStatus(self, free_list, size, at) ==
    IF at > Len(free_list) THEN "Ok"
    ELSE IF ~AssertsHold(self, free_list[at], size) THEN "Panic"
    ELSE "CacheFull"

\* a grow that adds the whole slice or nothing
grow_base_pages_all_or_nothing(self, free_list) ==
    LET at == StopsAt(self, free_list, BASE_PAGE_SIZE,
                      BasePageCapacity - Len(self.base_page_addresses))
    IN  CacheResult(IF at > Len(free_list)
                    THEN [self EXCEPT !.base_page_addresses = @ \o Bases(free_list, at - 1)]
                    ELSE self,
                    GrowStatus(self, free_list, BASE_PAGE_SIZE, at), NoFrame)
grow_base_pages(self, free_list) ==
    LET at == StopsAt(self, free_list, BASE_PAGE_SIZE,
                      BasePageCapacity - Len(self.base_page_addresses))
    IN  CacheResult([self EXCEPT !.base_page_addresses = @ \o Bases(free_list, at - 1)],
                    GrowStatus(self, free_list, BASE_PAGE_SIZE, at), NoFrame)

grow_large_pages(self, free_list) ==
    LET at == StopsAt(self, free_list, LARGE_PAGE_SIZE,
                      LargePageCapacity - Len(self.large_page_addresses))
    IN  CacheResult([self EXCEPT !.large_page_addresses = @ \o Bases(free_list, at - 1)],
                    GrowStatus(self, free_list, LARGE_PAGE_SIZE, at), NoFrame)

\* the loop of reap_*: for every slot of the buffer in turn, pop an address
\* and write Some(frame) into the slot; break when the stack is empty.  A
\* slot holding None is NoFrame.
RECURSIVE reap_peek(_, _, _, _, _)
reap_peek(vec, free_list, i, size, node) ==
    IF i > Len(free_list) \/ vec = <<>> THEN [vec |-> vec, buffer |-> free_list]
    ELSE reap_peek(IF i = Len(free_list) THEN pop(vec).vec ELSE vec,
                   [free_list EXCEPT ![i] = Frame(pop(vec).element, size, node)],
                   i + 1, size, node)
RECURSIVE reap(_, _, _, _, _)
reap(vec, free_list, i, size, node) ==
    IF i > Len(free_list) \/ vec = <<>> THEN [vec |-> vec, buffer |-> free_list]
    ELSE reap(pop(vec).vec,
              [free_list EXCEPT ![i] = Frame(pop(vec).element, size, node)],
              i + 1, size, node)

reap_base_pages(self, free_list) ==
    LET r == reap(self.base_page_addresses, free_list, 1, BASE_PAGE_SIZE, self.node)
    IN  [self |-> [self EXCEPT !.base_page_addresses = r.vec], status |-> "Ok",
         frame |-> NoFrame, buffer |-> r.buffer]

reap_large_pages(self, free_list) ==
    LET r == reap(self.large_page_addresses, free_list, 1, LARGE_PAGE_SIZE, self.node)
    IN  [self |-> [self EXCEPT !.large_page_addresses = r.vec], status |-> "Ok",
         frame |-> NoFrame, buffer |-> r.buffer]

\* Frame::base_pages, split_at and split_at_nearest_large_page_boundary
base_pages(frame) == frame.size \div BASE_PAGE_SIZE
split_at(frame, size) ==
    IF size >= frame.size THEN <<frame, NoFrame>>
    ELSE << Frame(frame.base, size, frame.affinity),
            Frame(frame.base + size, frame.size - size, frame.affinity) >>
round_up(addr, align) == ((addr + align - 1) \div align) * align
split_at_nearest_large_page_boundary(frame) ==
    IF frame.base % LARGE_PAGE_SIZE = 0 THEN <<NoFrame, frame>>
    ELSE split_at(frame, round_up(frame.base, LARGE_PAGE_SIZE) - frame.base)

\* the addresses frame.into_iter() yields, the first n of them
PagesOf(frame, n) == [i \in 1..n |-> frame.base + (i - 1) * BASE_PAGE_SIZE]
LargePagesOf(frame, n) == [i \in 1..n |-> frame.base + (i - 1) * LARGE_PAGE_SIZE]

\* how many large pages populate means to take
how_many_large_pages(self, frame) ==
    IF base_pages(frame) > BasePageCapacity
    THEN max(1, ((base_pages(frame) - BasePageCapacity) * BASE_PAGE_SIZE) \div LARGE_PAGE_SIZE)
    ELSE 1

\* the debug_assert! of populate, compiled into debug builds only
SmallFrameAssertSkipped(frame, dbg) == TRUE
SmallFrameAssert(frame, dbg) ==
    (dbg /\ base_pages(frame) <= BasePageCapacity) =>
        BasePageCapacity * BASE_PAGE_SIZE <= LARGE_PAGE_SIZE

\* populate(frame): the cache afterwards, whether it panicked, the pages lost
populate(self, frame, dbg) ==
    LET halves == split_at_nearest_large_page_boundary(frame)
        low_frame == halves[1]
        aligned == halves[2]
        low_room == BasePageCapacity - Len(self.base_page_addresses)
        with_low == [self EXCEPT
                        !.base_page_addresses =
                            @ \o PagesOf(low_frame, min(base_pages(low_frame), low_room))]
        wanted == min(how_many_large_pages(self, frame), aligned.size \div LARGE_PAGE_SIZE)
        large_room == LargePageCapacity - Len(self.large_page_addresses)
        with_large == [with_low EXCEPT
                          !.large_page_addresses =
                              @ \o LargePagesOf(aligned, min(wanted, large_room))]
        rest == Frame(aligned.base + wanted * LARGE_PAGE_SIZE,
                      aligned.size - wanted * LARGE_PAGE_SIZE, aligned.affinity)
        base_room == BasePageCapacity - Len(with_low.base_page_addresses)
        with_rest == [with_large EXCEPT
                         !.base_page_addresses =
                             @ \o PagesOf(rest, min(base_pages(rest), base_room))]
    IN  IF ~SmallFrameAssert(frame, dbg)
        THEN [self |-> self, status |-> "Panic", lost |-> 0]
        ELSE IF base_pages(low_frame) > low_room
        THEN [self |-> with_low, status |-> "Panic", lost |-> 0]
        ELSE IF wanted > large_room
        THEN [self |-> with_large, status |-> "Panic", lost |-> 0]
        ELSE [self |-> with_rest, status |-> "Ok",
              lost |-> max(0, base_pages(rest) - base_room)]

TCacheSp_new_with_frame(node, mem, dbg) == populate(TCacheSp_new(node), mem, dbg)

\* the calls a caller makes: releases in the first plan, calls after
\* construction in the second, allocations in the first
MaxReleases == 3
MaxTakes == 4
MaxCacheCalls == 2

\* the node of the cache under test and the node of a foreign frame
CacheNode == 2
OtherNode == 4

\* the frames of tcache_sp_release_allocate, and those of the should_panic tests
GoodBaseFrames == { Frame(2 * BASE_PAGE_SIZE, BASE_PAGE_SIZE, CacheNode),
                    Frame(3 * BASE_PAGE_SIZE, BASE_PAGE_SIZE, CacheNode) }
GoodLargeFrames == { Frame(LARGE_PAGE_SIZE, LARGE_PAGE_SIZE, CacheNode),
                     Frame(2 * LARGE_PAGE_SIZE, LARGE_PAGE_SIZE, CacheNode) }
BadBaseFrames == { Frame(2 * BASE_PAGE_SIZE, BASE_PAGE_SIZE + 1, CacheNode),
                   Frame(2 * BASE_PAGE_SIZE + 1, BASE_PAGE_SIZE, CacheNode),
                   Frame(2 * BASE_PAGE_SIZE, BASE_PAGE_SIZE, OtherNode) }
BadLargeFrames == { Frame(LARGE_PAGE_SIZE, BASE_PAGE_SIZE, CacheNode),
                    Frame(LARGE_PAGE_SIZE + BASE_PAGE_SIZE, LARGE_PAGE_SIZE, CacheNode),
                    Frame(LARGE_PAGE_SIZE, LARGE_PAGE_SIZE, OtherNode) }

\* n frames of one size in a row
Run(start, n, size) == [i \in 1..n |-> Frame(start + (i - 1) * size, size, CacheNode)]

\* the slices handed to grow_*: short, filling the vector, too long, and with
\* a frame that fails an assert behind good ones or behind the last that fits
GrowBaseLists ==
    { Run(2 * BASE_PAGE_SIZE, 2, BASE_PAGE_SIZE),
      Run(2 * BASE_PAGE_SIZE, BasePageCapacity, BASE_PAGE_SIZE),
      Run(2 * BASE_PAGE_SIZE, 1, BASE_PAGE_SIZE) \o
          << Frame(2 * BASE_PAGE_SIZE, BASE_PAGE_SIZE, OtherNode) >> }
GrowLargeLists ==
    { Run(LARGE_PAGE_SIZE, 2, LARGE_PAGE_SIZE),
      Run(LARGE_PAGE_SIZE, LargePageCapacity, LARGE_PAGE_SIZE),
      Run(LARGE_PAGE_SIZE, 1, LARGE_PAGE_SIZE) \o
          << Frame(LARGE_PAGE_SIZE, BASE_PAGE_SIZE, CacheNode) >>,
      Run(LARGE_PAGE_SIZE, LargePageCapacity + 1, LARGE_PAGE_SIZE) \o
          << Frame(LARGE_PAGE_SIZE, LARGE_PAGE_SIZE, OtherNode) >> }

\* the memory handed to new_with_frame: three pages, one large page, 11 and
\* 12 MiB on a large-page boundary, 12 MiB three pages into memory, 34 MiB
PopulateFrames ==
    { Frame(3 * BASE_PAGE_SIZE, 3 * BASE_PAGE_SIZE, CacheNode),
      Frame(LARGE_PAGE_SIZE, LARGE_PAGE_SIZE, CacheNode),
      Frame(LARGE_PAGE_SIZE, 11 * (LARGE_PAGE_SIZE \div 2), CacheNode),
      Frame(LARGE_PAGE_SIZE, 6 * LARGE_PAGE_SIZE, CacheNode),
      Frame(3 * BASE_PAGE_SIZE, 6 * LARGE_PAGE_SIZE, CacheNode),
      Frame(LARGE_PAGE_SIZE, 17 * LARGE_PAGE_SIZE, CacheNode) }

\* the buffers handed to reap_*: no slot, empty slots, and a slot that holds
\* a frame of an earlier call
ReapBuffers ==
    { <<>>, << NoFrame >>, << NoFrame, NoFrame, NoFrame >>,
      << NoFrame, NoFrame, Frame(7 * BASE_PAGE_SIZE, BASE_PAGE_SIZE, OtherNode) >> }

CacheCalled(op, frames, r, lost) ==
    [op |-> op, frames |-> frames, status |-> r.status, frame |-> r.frame, lost |-> lost,
     before |-> cache, buffer |-> IF "buffer" \in DOMAIN r THEN r.buffer ELSE <<>>]

\* what every call does besides its effect on the cache
AfterCall(op, frames, r, lost) ==
    /\ cache' = r.self
    /\ cache_phase' = IF r.status = "Panic" THEN "panicked" ELSE "built"
    /\ lastCacheCall' = CacheCalled(op, frames, r, lost)
    /\ cache_calls' = cache_calls + 1
    /\ UNCHANGED <<plan, debug_build>>
    /\ UNCHANGED <<vspace, tcache, next_frame, save_area, calls_left, lastCall, trip>>
    /\ UNCHANGED <<tlbVars, histVars, testVars, buddyVars>>

CacheNew(node) ==
    /\ cache_phase = "unbuilt"
    /\ AfterCall("new", <<>>, CacheResult(TCacheSp_new(node), "Ok", NoFrame), 0)
    /\ UNCHANGED <<released, taken>>

CacheNewWithFrame(node, mem) ==
    /\ cache_phase = "unbuilt" /\ plan = "any"
    /\ LET r == TCacheSp_new_with_frame(node, mem, debug_build)
       IN  AfterCall("new_with_frame", <<mem>>, CacheResult(r.self, r.status, NoFrame), r.lost)
    /\ UNCHANGED <<released, taken>>

\* whether the caller may make a release, an allocation, or another call
MayRelease ==
    /\ cache_phase = "built"
    /\ \/ plan = "any" /\ cache_calls <= MaxCacheCalls
       \/ /\ plan = "release_allocate"
          /\ taken = [base |-> <<>>, large |-> <<>>]
          /\ Len(released.base) + Len(released.large) < MaxReleases
MayTake ==
    /\ cache_phase = "built"
    /\ \/ plan = "any" /\ cache_calls <= MaxCacheCalls
       \/ /\ plan = "release_allocate"
          /\ Len(taken.base) + Len(taken.large) < MaxTakes

\* the frames released so far, this one included when the caller keeps track
Kept(list, frame, r) ==
    IF plan = "release_allocate" /\ r.status = "Ok" THEN Append(list, frame) ELSE list
Got(list, r) ==
    IF plan = "release_allocate" THEN Append(list, [status |-> r.status, frame |-> r.frame])
    ELSE list

CacheReleaseBase(frame) ==
    /\ MayRelease
    /\ plan = "release_allocate" => frame \in GoodBaseFrames
    /\ LET r == release_base_page(cache, frame)
       IN  /\ AfterCall("release_base_page", <<frame>>, r, 0)
           /\ released' = [released EXCEPT !.base = Kept(@, frame, r)]
    /\ UNCHANGED taken

CacheReleaseLarge(frame) ==
    /\ MayRelease
    /\ plan = "release_allocate" => frame \in GoodLargeFrames
    /\ LET r == release_large_page(cache, frame)
       IN  /\ AfterCall("release_large_page", <<frame>>, r, 0)
           /\ released' = [released EXCEPT !.large = Kept(@, frame, r)]
    /\ UNCHANGED taken

CacheAllocateBase ==
    /\ MayTake
    /\ LET r == allocate_base_page(cache)
       IN  /\ AfterCall("allocate_base_page", <<>>, r, 0)
           /\ taken' = [taken EXCEPT !.base = Got(@, r)]
    /\ UNCHANGED released

CacheAllocateLarge ==
    /\ MayTake
    /\ LET r == allocate_large_page(cache)
       IN  /\ AfterCall("allocate_large_page", <<>>, r, 0)
           /\ taken' = [taken EXCEPT !.large = Got(@, r)]
    /\ UNCHANGED released

CacheGrowBase(free_list) ==
    /\ MayRelease /\ plan = "any"
    /\ AfterCall("grow_base_pages", free_list, grow_base_pages(cache, free_list), 0)
    /\ UNCHANGED <<released, taken>>

CacheGrowLarge(free_list) ==
    /\ MayRelease /\ plan = "any"
    /\ AfterCall("grow_large_pages", free_list, grow_large_pages(cache, free_list), 0)
    /\ UNCHANGED <<released, taken>>

CacheReapBase(free_list) ==
    /\ MayTake /\ plan = "any"
    /\ AfterCall("reap_base_pages", free_list, reap_base_pages(cache, free_list), 0)
    /\ UNCHANGED <<released, taken>>

CacheReapLarge(free_list) ==
    /\ MayTake /\ plan = "any"
    /\ AfterCall("reap_large_pages", free_list, reap_large_pages(cache, free_list), 0)
    /\ UNCHANGED <<released, taken>>

InitCache ==
    /\ TlbIdle
    /\ SysIdle
    /\ calls_left = [vspace |-> 0, other |-> 0]
    /\ TestIdle
    /\ BuddyIdle
    /\ cache = [node |-> 0, base_page_addresses |-> <<>>, large_page_addresses |-> <<>>]
    /\ cache_phase = "unbuilt"
    /\ \/ plan = "release_allocate" /\ debug_build = FALSE
       \/ plan = "any" /\ debug_build \in BOOLEAN
    /\ released = [base |-> <<>>, large |-> <<>>]
    /\ taken = [base |-> <<>>, large |-> <<>>]
    /\ lastCacheCall = NoCacheCall /\ cache_calls = 0

NextCache ==
    \/ CacheNew(CacheNode)
    \/ \E mem \in PopulateFrames : CacheNewWithFrame(CacheNode, mem)
    \/ \E frame \in GoodBaseFrames \cup BadBaseFrames \cup GoodLargeFrames :
          CacheReleaseBase(frame)
    \/ \E frame \in GoodLargeFrames \cup BadLargeFrames : CacheReleaseLarge(frame)
    \/ CacheAllocateBase
    \/ CacheAllocateLarge
    \/ \E free_list \in GrowBaseLists : CacheGrowBase(free_list)
    \/ \E free_list \in GrowLargeLists : CacheGrowLarge(free_list)
    \/ \E free_list \in ReapBuffers : CacheReapBase(free_list)
    \/ \E free_list \in ReapBuffers : CacheReapLarge(free_list)

SpecCache == InitCache /\ [][NextCache]_vars

free_base_pages(self) == Len(self.base_page_addresses)
free_large_pages(self) == Len(self.large_page_addresses)

\* what the i-th allocation of a class returns when the frames in pushed were
\* released before: the frames in reverse, then CacheExhausted
ReverseOf(pushed, i, size) ==
    IF i <= Len(pushed)
    THEN [status |-> "Ok",
          frame |-> Frame(pushed[Len(pushed) + 1 - i].base, size, cache.node)]
    ELSE [status |-> "CacheExhausted", frame |-> NoFrame]

\* C21: after releasing N base frames and M large frames into an empty cache,
\* free_base_pages() = N and free_large_pages() = M, and allocate_base_page /
\* allocate_large_page return the frames of their class in the reverse order
\* of release, each with the size of its class and the node of the cache as
\* affinity; allocating from an empty stack returns CacheExhausted.
C21_LifoCounted ==
    plan = "release_allocate" =>
        /\ taken = [base |-> <<>>, large |-> <<>>] =>
              /\ free_base_pages(cache) = Len(released.base)
              /\ free_large_pages(cache) = Len(released.large)
        /\ \A i \in 1..Len(taken.base) :
              taken.base[i] = ReverseOf(released.base, i, BASE_PAGE_SIZE)
        /\ \A i \in 1..Len(taken.large) :
              taken.large[i] = ReverseOf(released.large, i, LARGE_PAGE_SIZE)

\* two base frames and a large frame released, all taken back, and one more
\* base page asked for
C21_Witness ==
    /\ plan = "release_allocate"
    /\ Len(released.base) = 2 /\ released.base[1] # released.base[2]
    /\ Len(released.large) = 1
    /\ Len(taken.base) = 3 /\ taken.base[3].status = "CacheExhausted"
    /\ Len(taken.large) = 1 /\ taken.large[1].status = "Ok"

\* the size of the class a call is about, and the stack of that class
ClassSize(op) ==
    IF op \in {"release_base_page", "grow_base_pages"} THEN BASE_PAGE_SIZE ELSE LARGE_PAGE_SIZE
ClassStack(self, op) ==
    IF op \in {"release_base_page", "grow_base_pages"} THEN self.base_page_addresses
    ELSE self.large_page_addresses
OtherStack(self, op) ==
    IF op \in {"release_base_page", "grow_base_pages"} THEN self.large_page_addresses
    ELSE self.base_page_addresses

\* a frame that a class must refuse
Refused(frame, op) ==
    \/ frame.size # ClassSize(op)
    \/ frame.base % ClassSize(op) # 0
    \/ frame.affinity # lastCacheCall.before.node

\* the first frame of the last call that is refused, 0 when there is none
FirstRefused ==
    LET bad == { i \in 1..Len(lastCacheCall.frames) :
                    Refused(lastCacheCall.frames[i], lastCacheCall.op) }
    IN  IF bad = {} THEN 0 ELSE CHOOSE i \in bad : \A j \in bad : i <= j

\* how many frames the stack of the class could still take before the call
RoomBefore ==
    (IF ClassSize(lastCacheCall.op) = BASE_PAGE_SIZE THEN BasePageCapacity
     ELSE LargePageCapacity) - Len(ClassStack(lastCacheCall.before, lastCacheCall.op))

\* C22 as stated: a release_* or grow_* call that is handed a frame of the
\* wrong size, alignment or affinity panics and adds nothing to the cache.
C22_RefusedPanicsAddsNothing ==
    (/\ lastCacheCall.op \in {"release_base_page", "release_large_page",
                              "grow_base_pages", "grow_large_pages"}
     /\ FirstRefused # 0) =>
        /\ lastCacheCall.status = "Panic"
        /\ cache = lastCacheCall.before

\* C22: release_* handed a frame of the wrong size, alignment or affinity
\* panics and leaves the cache as it was; grow_* handles its slice front to
\* back, so when the first refused frame comes before the stack is full the
\* call panics having added exactly the frames in front of it, and when the
\* stack fills first the call returns CacheFull without reaching that frame;
\* a refused frame is never added.
C22_RefusedPanicsAtItsTurn ==
    (/\ lastCacheCall.op \in {"release_base_page", "release_large_page",
                              "grow_base_pages", "grow_large_pages"}
     /\ FirstRefused # 0) =>
        LET op == lastCacheCall.op
            before == lastCacheCall.before
        IN  /\ OtherStack(cache, op) = OtherStack(before, op)
            /\ IF FirstRefused <= RoomBefore + 1
               THEN /\ lastCacheCall.status = "Panic"
                    /\ ClassStack(cache, op) =
                          ClassStack(before, op) \o Bases(lastCacheCall.frames, FirstRefused - 1)
               ELSE /\ lastCacheCall.status = "CacheFull"
                    /\ ClassStack(cache, op) =
                          ClassStack(before, op) \o Bases(lastCacheCall.frames, RoomBefore)
            /\ op \in {"release_base_page", "release_large_page"} => cache = before

\* a grow whose second frame is refused after the first went in, onto a
\* cache that had refused nothing before
C22_Witness ==
    /\ lastCacheCall.op = "grow_large_pages"
    /\ FirstRefused = 2
    /\ lastCacheCall.status = "Panic"
    /\ Len(cache.large_page_addresses) = Len(lastCacheCall.before.large_page_addresses) + 1

\* the last call was a release_* of a frame its class accepts onto a stack
\* that was full
ReleasedOntoFull ==
    /\ lastCacheCall.op \in {"release_base_page", "release_large_page"}
    /\ ~Refused(lastCacheCall.frames[1], lastCacheCall.op)
    /\ RoomBefore = 0

\* C23: in every reachable state the base-page stack holds at most 2048
\* addresses and the large-page stack at most 12; a release_* onto a full
\* stack returns CacheFull and leaves both stacks unchanged.
C23_BoundedStacks ==
    /\ free_base_pages(cache) <= 2048
    /\ free_large_pages(cache) <= 12
    /\ ReleasedOntoFull =>
          /\ lastCacheCall.status = "CacheFull"
          /\ cache = lastCacheCall.before

\* a base page released onto 2048 base pages
C23_Witness ==
    /\ lastCacheCall.op = "release_base_page"
    /\ ReleasedOntoFull
    /\ free_base_pages(cache) = 2048
    /\ lastCacheCall.status = "CacheFull"

\* the base pages of a frame, those on the base-page stack, and those inside
\* the 2 MiB pages on the large-page stack
PagesOfFrame(frame) ==
    { frame.base + (i - 1) * BASE_PAGE_SIZE : i \in 1..base_pages(frame) }
OnBaseStack(self) ==
    { self.base_page_addresses[i] : i \in 1..Len(self.base_page_addresses) }
InLargePages(self) ==
    UNION { { self.large_page_addresses[i] + (k - 1) * BASE_PAGE_SIZE :
                 k \in 1..(LARGE_PAGE_SIZE \div BASE_PAGE_SIZE) } :
            i \in 1..Len(self.large_page_addresses) }

\* whether a frame holds a whole 2 MiB page on a 2 MiB boundary
HoldsLargePage(frame) ==
    round_up(frame.base, LARGE_PAGE_SIZE) + LARGE_PAGE_SIZE <= frame.base + frame.size

\* C24: populate(frame) on an empty TCacheSp terminates without panic for
\* every frame size; every base page of the frame ends up in exactly one of
\* the base-page stack, a 2 MiB page of the large-page stack, or the lost
\* count; neither stack exceeds its capacity; and a frame that holds a 2 MiB
\* page puts at least one on the large-page stack.
C24_PopulatePartitions ==
    lastCacheCall.op = "new_with_frame" =>
        LET frame == lastCacheCall.frames[1]
        IN  /\ lastCacheCall.status # "Panic"
            /\ Cardinality(OnBaseStack(cache)) = free_base_pages(cache)
            /\ OnBaseStack(cache) \cap InLargePages(cache) = {}
            /\ OnBaseStack(cache) \cup InLargePages(cache) \subseteq PagesOfFrame(frame)
            /\ Cardinality(OnBaseStack(cache)) + Cardinality(InLargePages(cache))
                  + lastCacheCall.lost = base_pages(frame)
            /\ free_base_pages(cache) <= BasePageCapacity
            /\ free_large_pages(cache) <= LargePageCapacity
            /\ HoldsLargePage(frame) => free_large_pages(cache) >= 1

\* the same without the first conjunct: what holds of the calls that return
PopulatePartitionsWhenReturning ==
    (lastCacheCall.op = "new_with_frame" /\ lastCacheCall.status # "Panic") =>
        LET frame == lastCacheCall.frames[1]
        IN  /\ Cardinality(OnBaseStack(cache)) = free_base_pages(cache)
            /\ OnBaseStack(cache) \cap InLargePages(cache) = {}
            /\ OnBaseStack(cache) \cup InLargePages(cache) \subseteq PagesOfFrame(frame)
            /\ Cardinality(OnBaseStack(cache)) + Cardinality(InLargePages(cache))
                  + lastCacheCall.lost = base_pages(frame)
            /\ HoldsLargePage(frame) => free_large_pages(cache) >= 1

\* C25: when the handler returns Ok((a, b)) the save area receives ret1 = a,
\* ret2 = b and the error code Ok; when it returns an error the save area
\* receives the error's code alone and ret1 / ret2 stay as they were; a
\* function number of no category yields an error; in both cases the
\* dispatcher resumes the process from the save area.
C25_ReturnPath ==
    lastCall.function # "None" =>
        /\ lastCall.handler.status = "Ok" =>
              /\ save_area = [ret1 |-> lastCall.handler.ret1,
                              ret2 |-> lastCall.handler.ret2, err |-> "Ok"]
              /\ lastCall.resumed
        /\ lastCall.handler.status = "Err" =>
              /\ save_area.err = ErrorCode(lastCall.handler.err)
              /\ save_area.err # "Ok"
              /\ save_area.ret1 = lastCall.before.ret1
              /\ save_area.ret2 = lastCall.before.ret2
              /\ lastCall.resumed
        /\ lastCall.function = "Unknown" => lastCall.handler.status = "Err"

\* a call of no category after a call that left a length in ret1
C25_Witness ==
    /\ lastCall.function = "Unknown"
    /\ lastCall.before.ret1 = SerializedLen
    /\ save_area.ret1 = SerializedLen
    /\ save_area.err = "InvalidSyscallArgument1"

\* whether the memory manager is borrowed when step i of a handler runs
BorrowedAt(steps, i) ==
    \E j \in 1..(i - 1) :
        /\ steps[j] = "mem_manager"
        /\ \A k \in (j + 1)..(i - 1) : steps[k] # "drop mem_manager"
\* the steps that execute an operation on the log or enqueue work for a core
LogOrEnqueue ==
    { "log map_frames", "log unmap", "log resolve", "log allocate_frame_to_process",
      "enqueue shootdown" }

\* C26: in the handlers that allocate physical memory, Process
\* AllocatePhysical and VSpace Map, the memory manager borrowed for the
\* allocation has been dropped before the handler executes an operation on
\* the replicated log or enqueues work for another core; no handler does
\* either while it holds the memory manager.
C26_ManagerDroppedBeforeLog ==
    \A i \in 1..Len(lastCall.steps) :
        lastCall.steps[i] \in LogOrEnqueue => ~BorrowedAt(lastCall.steps, i)

\* a Map or an AllocatePhysical that borrowed the manager, allocated a frame
\* and executed a log operation after it
C26_Witness ==
    /\ lastCall.op \in {"Map", "AllocatePhysical"}
    /\ \E i, j, k \in 1..Len(lastCall.steps) :
          /\ i < j /\ j < k
          /\ lastCall.steps[i] = "mem_manager"
          /\ lastCall.steps[j] = "allocate"
          /\ lastCall.steps[k] \in LogOrEnqueue
    /\ lastCall.op = "AllocatePhysical" => lastCall.result.ret2 # 0

\* what a flush over [start, end) must leave of a TLB: nothing when the range
\* has more than 20 base pages, else every translation but those of a page
\* of the range
LeftByFlush(tlb, start, end) ==
    IF (end - start) \div BASE_PAGE_SIZE > 20 THEN {}
    ELSE { l \in tlb : ~Overlaps(l, start, end) }

\* C27: processing a Shootdown over at most 20 base pages invalidates the
\* base pages of the range one by one and nothing else, and over more than
\* 20 base pages flushes the whole TLB; the rule is the same for the local
\* flush of the initiator and for the flush of every receiver, so a 2 MiB
\* unmap flushes everything.
C27_FlushThreshold ==
    [][\A c \in Cores :
          /\ (pc[c] = "irq_flush" /\ pc'[c] = "user") =>
                tlbc'[c] = LeftByFlush(tlbc[c], loc[c].msg.start, loc[c].msg.end)
          /\ (pc[c] = "shootdown_enqueue" /\ pc'[c] = "shootdown_wait") =>
                tlbc'[c] = LeftByFlush(tlbc[c], loc[c].handle.vaddr,
                                       loc[c].handle.vaddr + loc[c].handle.size)]_vars

\* one initiator has flushed a base page and kept the translation of the
\* large page, another has flushed a large page and lost everything, and a
\* receiver is about to flush the base page
C27_Witness ==
    \E c, d, e \in Cores :
        /\ pc[c] = "shootdown_wait" /\ loc[c].handle.size = BASE_PAGE_SIZE
        /\ tlbc[c] = { l \in Leaves : l.size = LARGE_PAGE_SIZE }
        /\ pc[d] = "shootdown_wait" /\ loc[d].handle.size = LARGE_PAGE_SIZE
        /\ tlbc[d] = {}
        /\ pc[e] = "irq_flush" /\ loc[e].msg.end - loc[e].msg.start = BASE_PAGE_SIZE

\* C28: a receiver sets the ack flag of a Shootdown before it performs the
\* flush for it, the flush follows in the same run of the handler with
\* nothing else running on the core in between, and an ack flag that is
\* true never becomes false again.
C28_AckBeforeFlush ==
    /\ [](\A c \in Cores : pc[c] = "irq_flush" => is_acknowledged(loc[c].msg.tag))
    /\ [][/\ \A tag \in acked : tag \in acked'
          /\ \A c \in Cores :
                pc[c] = "irq_flush" =>
                    \/ pc'[c] = "irq_flush" /\ tlbc'[c] = tlbc[c] /\ loc'[c] = loc[c]
                    \/ pc'[c] = "user"
                       /\ tlbc'[c] = ProcessFlush(tlbc[c], loc[c].msg.start, loc[c].msg.end)]_vars

\* a receiver has acknowledged a Shootdown for the base page and still holds
\* the translation it is about to flush
C28_Witness ==
    \E c \in Cores :
        /\ pc[c] = "irq_flush"
        /\ is_acknowledged(loc[c].msg.tag)
        /\ \E l \in tlbc[c] : Overlaps(l, loc[c].msg.start, loc[c].msg.end)
        /\ loc[c].msg.end - loc[c].msg.start = BASE_PAGE_SIZE

\* how often the Shootdown with this tag was enqueued for core g
TimesEnqueued(g, tag) ==
    Cardinality({ i \in 1..Len(enq_order[g]) :
                     enq_order[g][i].kind = "Shootdown" /\ enq_order[g][i].tag = tag })

\* C29: shootdown enqueues exactly one Shootdown, with its own ack flag that
\* is false, on the queue of each gtid of core_map other than the initiator,
\* and nothing on the queue of the initiator or of a gtid outside core_map;
\* the ack of one target never satisfies the wait for another target.
C29_OneShootdownPerTarget ==
    /\ \A c \in Cores :
          pc[c] = "shootdown_wait" =>
              LET targets == loc[c].handle.core_map \ {c}
                  sent == loc[c].sent
              IN  /\ { p[1] : p \in sent } = targets
                  /\ Cardinality(sent) = Cardinality(targets)
                  /\ \A p, q \in sent : p[2] = q[2] => p = q
                  /\ \A p \in sent : \A g \in Cores :
                        TimesEnqueued(g, p[2]) = IF g = p[1] THEN 1 ELSE 0
    /\ \A g \in Cores : \A i \in 1..Len(queue[g]) :
          queue[g][i].kind = "Shootdown" => ~is_acknowledged(queue[g][i].tag)
    /\ \A c \in Cores : \A p \in loc[c].sent :
          /\ is_acknowledged(p[2]) => ProcessedOn(p[1], p[2])
          /\ \A g \in Cores \ {p[1]} : ~ProcessedOn(g, p[2])

\* the initiator waits for two targets of which one has acknowledged: its
\* Shootdown has left the list, the one of the other target stays
C29_Witness ==
    \E c \in Cores :
        /\ pc[c] = "shootdown_wait"
        /\ Cardinality(loc[c].sent) = 2
        /\ \E p, q \in loc[c].sent :
              /\ is_acknowledged(p[2])
              /\ ~is_acknowledged(q[2])
              /\ loc[c].shootdowns = <<q[2]>>

\* two cores are inside shootdown at once, each a target of the other
BothInShootdown(c, d) ==
    /\ c < d
    /\ pc[c] \in {"shootdown_enqueue", "shootdown_wait"}
    /\ pc[d] \in {"shootdown_enqueue", "shootdown_wait"}
    /\ d \in loc[c].handle.core_map
    /\ c \in loc[d].handle.core_map

\* C30: when two cores run shootdown at the same time and each is a target
\* of the other, with interrupts masked while a core is inside a system
\* call, both calls eventually return.
C30_InitiatorsBothReturn ==
    \A c, d \in Cores :
        BothInShootdown(c, d) ~> (pc[c] = "user" /\ pc[d] = "user")

\* C31: the assertion in enqueue never fails: whatever the cores do, a push
\* onto the queue of a core, also the push by which the poll puts back the
\* Shootdown it popped, finds a free slot.
C31_EnqueueNeverFails ==
    \A c \in Cores : pc[c] # "panic"

\* core c sends, in this step, an IPI for an item that is in the queue
\* history of core g already
AnnouncesEnqueued(c, g) ==
    \/ /\ pc[c] = "advance_ipi" /\ pc'[c] = "user"
       /\ loc[c].target = g
       /\ loc[c].msg \in Items(enq_order[g])
    \/ /\ pc[c] = "shootdown_enqueue" /\ pc'[c] = "shootdown_wait"
       /\ \E p \in loc[c].sent : p[1] = g /\ TimesEnqueued(g, p[2]) = 1

\* C32: in shootdown and in advance_replica the work item is in the queue of
\* the target before the IPI that announces it is sent, so a handler that
\* runs because of the IPI finds the queue empty only when every item
\* enqueued for the core has been consumed already, by the poll or by an
\* earlier run of the handler.
C32_EnqueuedBeforeIpi ==
    [][\A g \in Cores :
          /\ (\E v \in irr'[g] : v \notin irr[g]) => \E c \in Cores : AnnouncesEnqueued(c, g)
          /\ ((\E v \in irr[g] : v \notin irr'[g]) /\ queue[g] = <<>>) =>
                \A m \in Items(enq_order[g]) : m \in Items(proc_order[g])]_vars

\* a handler run that found the queue empty because the poll had taken the
\* item the IPI was sent for
C32_Witness ==
    /\ lastIrq.ran
    /\ lastIrq.entry = <<>>
    /\ enq_order[lastIrq.gtid] # <<>>
    /\ lastAdvance.path = "eager"
    /\ lastAdvance.gtid = lastIrq.gtid

\* C33: eager_advance_mlnr_replica never acknowledges, flushes or drops a
\* Shootdown: when the item it pops is a Shootdown, that item is back in the
\* queue of the core, still unacknowledged, when the function returns; when
\* the queue is empty it synchronizes the NR replica and then the log of the
\* core, log 1 first when that is another log.
C33_PollKeepsShootdown ==
    /\ [](lastAdvance.path = "eager_empty" =>
             /\ lastAdvance.nr = <<"synchronize">>
             /\ lastAdvance.log_id = ReplicaLogId(lastAdvance.gtid)
             /\ lastAdvance.syncs =
                   IF lastAdvance.log_id # 1 THEN <<1, lastAdvance.log_id>> ELSE <<1>>)
    /\ [][\A c \in Cores :
             pc[c] = "eager_requeue" =>
                 /\ ~is_acknowledged(loc[c].msg.tag)
                 /\ loc[c].msg.tag \notin acked'
                 /\ tlbc'[c] = tlbc[c]
                 /\ pc'[c] # pc[c] =>
                       /\ pc'[c] = "user"
                       /\ loc[c].msg \in Items(queue'[c])]_vars

\* what holds of the poll apart from the failed put-back: it acknowledges
\* and flushes nothing, and a put-back that finds room returns the item
PollKeepsShootdownWhenRoom ==
    /\ \A c \in Cores :
          pc[c] = "eager_requeue" => ~is_acknowledged(loc[c].msg.tag)
    /\ \A c \in requeued : \A m \in Items(enq_order[c]) :
          m.kind = "Shootdown" =>
              \/ m \in Items(queue[c]) \/ ProcessedOn(c, m.tag)
              \/ (pc[c] \in {"eager_requeue", "panic"} /\ loc[c].msg = m)

\* the bytes on the free lists
RECURSIVE SumBlocks(_)
SumBlocks(blocks) ==
    IF blocks = {} THEN 0
    ELSE LET b == CHOOSE x \in blocks : TRUE
         IN  b.size + SumBlocks(blocks \ {b})

\* the other half of the block one order up, by the offset into the region
BuddyOf(f) == [base |-> heap.base + Xor(f.base - heap.base, f.size), size |-> f.size]

\* C34: after every allocate_frame / deallocate_frame the blocks on the free
\* lists and the allocated frames partition the managed region exactly
\* (free bytes + allocated() = region size), no free list holds a block
\* together with its buddy, and once every frame is deallocated the region
\* is one free block of the top order, so that allocating the whole region
\* succeeds at offset 0.
C34_ConservedAndCoalesced ==
    /\ SumBlocks(FreeBlocks) + allocated_bytes = heap.size
    /\ \A f \in FreeBlocks : f.size < heap.size => BuddyOf(f) \notin FreeBlocks
    /\ live = {} => FreeBlocks = { [base |-> heap.base, size |-> heap.size] }
    /\ (/\ lastBuddyCall.op = "Allocate"
        /\ lastBuddyCall.allocated_before = 0
        /\ lastBuddyCall.size = heap.size) =>
           /\ lastBuddyCall.status = "Ok"
           /\ lastBuddyCall.frame.base = heap.base

\* the same for the regions whose base is a multiple of their size
ConservedAndCoalescedWhenAligned ==
    heap.base % heap.size = 0 => C34_ConservedAndCoalesced

(***************************************************************************)
(* add_memory on an allocator made by BuddyFrameAllocator::new(), and      *)
(* again on the allocator it leaves.  script keeps every call: the frame,  *)
(* what the call returned, the allocator before and after.                 *)
(***************************************************************************)
\* the add_memory calls of one run
MaxAdds == 2

\* one to eight pages, on a 2 MiB boundary and three pages into memory
AddFrames ==
    { [base |-> b, size |-> n * BASE_PAGE_SIZE, affinity |-> 1] :
        b \in { LARGE_PAGE_SIZE, 3 * BASE_PAGE_SIZE }, n \in { 1, 2, 3, 4, 5, 8 } }

\* if self.region.base.as_u64() == 0
add_memory_accepts(self) == self.region.base = 0

\* let size = region.size.next_power_of_two() >> 1
add_memory_size(r) == next_power_of_two(r.size) \div 2

\* the call: what it returns and the allocator afterwards; the expect on
\* layout_to_order panics when the root block is smaller than a page
add_memory_call(self, r) ==
    IF ~add_memory_accepts(self) THEN [self |-> self, status |-> "false"]
    ELSE IF layout_to_order([self EXCEPT !.region.size = add_memory_size(r)],
                            add_memory_size(r), 1) = None
    THEN [self |-> [self EXCEPT !.region.size = add_memory_size(r)], status |-> "Panic"]
    ELSE [self |-> add_memory(self, r), status |-> "true"]

BuddyAddMemory(r) ==
    /\ phase = "add"
    /\ Len(script) < MaxAdds
    /\ \A i \in 1..Len(script) : script[i].status # "Panic"
    /\ LET c == add_memory_call(Self, r)
       IN  /\ Install(c.self)
           /\ script' = Append(script, [frame |-> r, status |-> c.status,
                                        before |-> Self, after |-> c.self])
           /\ lastBuddyCall' = BuddyCalled("add_memory", Self, r.size, 1, c.status, r)
    /\ UNCHANGED <<heap, live, phase, second, lastQuery, exact>>
    /\ UNCHANGED <<tlbVars, histVars, sysVars, testVars, cacheVars>>

InitAddMemory ==
    /\ TlbIdle
    /\ SysIdle
    /\ debug_build = FALSE
    /\ calls_left = [vspace |-> 0, other |-> 0]
    /\ TestIdle
    /\ CacheIdle
    /\ region = new.region
    /\ allocated_bytes = new.allocated_bytes
    /\ internal_fragmentation = new.internal_fragmentation
    /\ free_lists = new.free_lists
    /\ min_heap_align = new.min_heap_align
    /\ min_block_size = new.min_block_size
    /\ heap = NoFrame
    /\ live = {} /\ phase = "add" /\ script = <<>> /\ second = <<>>
    /\ lastQuery = NoQuery /\ lastBuddyCall = NoBuddyCall /\ exact = TRUE

NextAddMemory == \E r \in AddFrames : BuddyAddMemory(r)

SpecAddMemory == InitAddMemory /\ [][NextAddMemory]_vars

\* the largest power of two that is <= n, for n > 0
RECURSIVE LargestPow2AtMost(_, _)
LargestPow2AtMost(p, n) == IF 2 * p > n THEN p ELSE LargestPow2AtMost(2 * p, n)

\* C35: add_memory(region) on an empty buddy makes it manage the largest
\* power of two that is <= region.size, the whole region when region.size is
\* a power of two, and drops the remainder only.
C35_ManagesLargestPowerOfTwo ==
    Len(script) >= 1 =>
        /\ script[1].status = "true"
        /\ script[1].after.region.size = LargestPow2AtMost(1, script[1].frame.size)
        /\ FreeBlocks # {} =>
              \E f \in FreeBlocks :
                  /\ f.base = script[1].frame.base
                  /\ Len(script) = 1 => f.size = LargestPow2AtMost(1, script[1].frame.size)

\* what the call does: it manages half of a region whose size is a power of
\* two, and the largest power of two below the size of any other region
ManagesPowerOfTwoBelow ==
    (Len(script) >= 1 /\ script[1].status = "true") =>
        LET size == script[1].frame.size
        IN  script[1].after.region.size =
                IF LargestPow2AtMost(1, size) = size THEN size \div 2
                ELSE LargestPow2AtMost(1, size)

\* C36: a buddy manages a single region: once add_memory has accepted a
\* region (returned true), every later add_memory call returns false and
\* leaves the free lists and the region unchanged.
C36_SingleRegion ==
    \A i \in 2..Len(script) :
        script[1].status = "true" =>
            /\ script[i].status = "false"
            /\ script[i].after.free_lists = script[i].before.free_lists
            /\ script[i].after.region = script[i].before.region

\* the stack a reap_* call drains and the size of its frames
ReapedStack(self, op) ==
    IF op = "reap_base_pages" THEN self.base_page_addresses ELSE self.large_page_addresses
ReapedSize(op) == IF op = "reap_base_pages" THEN BASE_PAGE_SIZE ELSE LARGE_PAGE_SIZE

\* C37: reap_base_pages / reap_large_pages with a buffer of N slots pops
\* min(N, pages available) pages in LIFO order into the first slots of the
\* buffer, as frames of the class size and the node of the cache, leaves the
\* remaining slots untouched, and reduces the stack by exactly that many
\* pages.
C37_ReapDrainsUpToN ==
    lastCacheCall.op \in {"reap_base_pages", "reap_large_pages"} =>
        LET op == lastCacheCall.op
            stack == ReapedStack(lastCacheCall.before, op)
            given == lastCacheCall.frames
            got == lastCacheCall.buffer
            n == min(Len(given), Len(stack))
        IN  /\ Len(got) = Len(given)
            /\ \A i \in 1..n :
                  got[i] = Frame(stack[Len(stack) + 1 - i], ReapedSize(op),
                                 lastCacheCall.before.node)
            /\ \A i \in (n + 1)..Len(given) : got[i] = given[i]
            /\ ReapedStack(cache, op) = SubSeq(stack, 1, Len(stack) - n)
            /\ cache.node = lastCacheCall.before.node
            /\ op = "reap_base_pages" =>
                  cache.large_page_addresses = lastCacheCall.before.large_page_addresses
            /\ op = "reap_large_pages" =>
                  cache.base_page_addresses = lastCacheCall.before.base_page_addresses

\* a buffer of three slots, the last one holding an older frame, drained from
\* a stack of two pages: two frames out, the third slot as it was
C37_Witness ==
    /\ lastCacheCall.op = "reap_base_pages"
    /\ Len(lastCacheCall.frames) = 3
    /\ lastCacheCall.frames[3] # NoFrame
    /\ Len(lastCacheCall.before.base_page_addresses) = 2
    /\ lastCacheCall.buffer[1].base # lastCacheCall.buffer[2].base
    /\ cache.base_page_addresses = <<>>

\* the last call was a grow_* that met no refused frame before the slice
\* ended or the stack was full
GrewAccepted ==
    /\ lastCacheCall.op \in {"grow_base_pages", "grow_large_pages"}
    /\ FirstRefused = 0 \/ FirstRefused > RoomBefore + 1

\* C38: grow_base_pages / grow_large_pages pushes the frames of the slice in
\* order; when the slice does not fit it returns CacheFull with the stack full
\* and holding exactly the prefix of the slice that fitted, and when it fits
\* it returns Ok with every frame added.
C38_GrowPushesPrefix ==
    GrewAccepted =>
        LET op == lastCacheCall.op
            given == lastCacheCall.frames
            stack == ClassStack(lastCacheCall.before, op)
            fitted == min(Len(given), RoomBefore)
        IN  /\ ClassStack(cache, op) = stack \o Bases(given, fitted)
            /\ OtherStack(cache, op) = OtherStack(lastCacheCall.before, op)
            /\ Len(given) <= RoomBefore => lastCacheCall.status = "Ok"
            /\ Len(given) > RoomBefore =>
                  /\ lastCacheCall.status = "CacheFull"
                  /\ RoomBefore + Len(stack) = Len(ClassStack(cache, op))
                  /\ Len(ClassStack(cache, op)) =
                        IF op = "grow_base_pages" THEN BasePageCapacity
                        ELSE LargePageCapacity

\* a slice of base pages that did not fit: some of it went in, the rest did
\* not, and the call returned CacheFull
C38_Witness ==
    /\ GrewAccepted
    /\ lastCacheCall.op = "grow_base_pages"
    /\ lastCacheCall.status = "CacheFull"
    /\ RoomBefore > 0
    /\ RoomBefore < Len(lastCacheCall.frames)
    /\ Len(cache.base_page_addresses) = BasePageCapacity

\* a checked range that starts in the kernel half, or whose end wraps around
\* the address width
TouchesKernelHalf(c) == c.base >= KERNEL_BASE \/ c.base + c.size >= WordModulus

\* C39: user_virt_addr_valid never accepts a range that touches the kernel
\* half, also when base + size exceeds the address width: for every base >=
\* KERNEL_BASE and every size, and for every base and size whose sum wraps
\* around, the result is an error and never Ok.
C39_KernelHalfNeverValid ==
    \A c \in lastCall.checks :
        TouchesKernelHalf(c) => c.verdict \in {"BadAddress", "NotMapped"}

\* what holds of such a range: it is refused unless its end wraps around
KernelHalfRefusedUnlessWrapping ==
    \A c \in lastCall.checks :
        (TouchesKernelHalf(c) /\ c.base + c.size < WordModulus) => c.verdict = "BadAddress"

\* the frame is on the stack of its size in the TCache
InTCache(tc, frame) ==
    \E i \in 1..Len(IF frame.size = BASE_PAGE_SIZE THEN tc.base_page_addresses
                    ELSE tc.large_page_addresses) :
        (IF frame.size = BASE_PAGE_SIZE THEN tc.base_page_addresses
         ELSE tc.large_page_addresses)[i] = frame.base
InSeq(frame, frames) == \E i \in 1..Len(frames) : frames[i] = frame

\* C40: Process AllocatePhysical loses no frame: with a page size other than
\* 4096 or 2097152 it returns an invalid-argument error without taking any
\* frame from the TCache; otherwise every frame it pops from the TCache is,
\* when the call returns, either registered with the calling process (success,
\* returning its FrameId and physical address) or back in the allocator (when
\* registering with the process failed).
C40_NoFrameLost ==
    lastCall.op = "AllocatePhysical" =>
        /\ lastCall.arg2 \notin {BASE_PAGE_SIZE, LARGE_PAGE_SIZE} =>
              /\ lastCall.handler = SysErr("InvalidSyscallArgument1")
              /\ lastCall.frames.popped = <<>>
              /\ tcache = lastCall.frames.tcache
        /\ \A i \in 1..Len(lastCall.frames.popped) :
              LET frame == lastCall.frames.popped[i]
              IN  IF lastCall.handler.status = "Ok"
                  THEN /\ InSeq(frame, lastCall.frames.registered)
                       /\ lastCall.handler.ret1 \in FrameIds
                       /\ lastCall.handler.ret2 = frame.base
                       /\ ~InTCache(tcache, frame)
                  ELSE /\ ~InSeq(frame, lastCall.frames.registered)
                       /\ InTCache(tcache, frame)

\* what holds: a call that is refused for its page size takes nothing, and a
\* call whose frame the kernel node registers returns that frame
NoFrameLostWhenRegistered ==
    (lastCall.op = "AllocatePhysical" /\ lastCall.frames.popped = lastCall.frames.registered)
        => C40_NoFrameLost

====
